---- MODULE Spec2Model ----
(***************************************************************************)
(* Synq: the migration store (synq/core/migration.py) and the migration    *)
(* applier with its ledger (synq/core/database.py).                        *)
(*                                                                         *)
(* Text is modelled as a sequence of one-character strings (file names) or *)
(* of tokens (migration SQL).  A SQL token is a separator (";", "\n", " "),*)
(* the comment marker "--", a comment word, or one whole SQL command that  *)
(* holds no separator.                                                     *)
(***************************************************************************)
EXTENDS Integers, Sequences, FiniteSets, TLC

VARIABLES
    store,          \* migrations_path: file name -> SQL text of the *.sql files
    ledger,         \* rows of synq_migrations, in insertion order (file names)
    schema,         \* the tables of the target database (durable state)
    txDDL,          \* does the engine behind db_uri roll DDL back with the transaction
    durable,        \* history: per apply whose statements all became durable, its file name
    failed,         \* history: file names whose apply_migration raised at least once
    last,           \* the last call: its arguments, the state before it, what it did
    napply,         \* number of apply_migration calls so far
    nsave,          \* number of files written so far
    operations,     \* the operation plan handed to generate_sql
    appliers,       \* per racing DatabaseManager: where its apply_migration stands
    strictColumns   \* does Table() of the installed SQLAlchemy refuse a second column
                    \* of one name (2.x) or put it in the place of the first (1.4)

vars ==
    <<store, ledger, schema, txDDL, durable, failed, last, napply, nsave, operations,
      appliers, strictColumns>>

(***************************************************************************)
(* Bounds of the model.                                                    *)
(***************************************************************************)
MaxApply == 3
MaxSave == 1

(***************************************************************************)
(* Sequences.                                                              *)
(***************************************************************************)
Range(s) == {s[i] : i \in 1..Len(s)}

\* Number of positions of s that hold x.
Count(s, x) == Cardinality({i \in 1..Len(s) : s[i] = x})

\* Python's s[i:j] with 1-based inclusive positions.
Slice(s, i, j) == IF j < i THEN <<>> ELSE SubSeq(s, i, j)

(***************************************************************************)
(* Characters of file names, with their code points (Python compares str   *)
(* by code point).                                                         *)
(***************************************************************************)
DigitChars == <<"0", "1", "2", "3", "4", "5", "6", "7", "8", "9">>

DigitSet == Range(DigitChars)

IsDigit(c) == c \in DigitSet

DigitVal(c) == (CHOOSE i \in 1..10 : DigitChars[i] = c) - 1

LowerChars ==
    <<"a", "b", "c", "d", "e", "f", "g", "h", "i", "j", "k", "l", "m",
      "n", "o", "p", "q", "r", "s", "t", "u", "v", "w", "x", "y", "z">>

UpperChars ==
    <<"A", "B", "C", "D", "E", "F", "G", "H", "I", "J", "K", "L", "M",
      "N", "O", "P", "Q", "R", "S", "T", "U", "V", "W", "X", "Y", "Z">>

LowerSet == Range(LowerChars)

UpperSet == Range(UpperChars)

IsLower(c) == c \in LowerSet

IsUpper(c) == c \in UpperSet

\* ord(c) of the characters of a file name.
CharOrds ==
    [c \in LowerSet |-> 96 + (CHOOSE i \in 1..26 : LowerChars[i] = c)]
        @@ [c \in DigitSet |-> 48 + DigitVal(c)]
        @@ ("." :> 46) @@ ("_" :> 95)

CharOrd(c) == CharOrds[c]

\* a < b for two str values: the first differing character decides, a proper
\* prefix is smaller.
RECURSIVE StrLess(_, _)
StrLess(a, b) ==
    IF b = <<>> THEN FALSE
    ELSE IF a = <<>> THEN TRUE
    ELSE IF Head(a) # Head(b) THEN CharOrd(Head(a)) < CharOrd(Head(b))
    ELSE StrLess(Tail(a), Tail(b))

\* sorted(S) for a set of str.
RECURSIVE Sorted(_)
Sorted(S) ==
    IF S = {} THEN <<>>
    ELSE LET m == CHOOSE x \in S : \A y \in S : x = y \/ StrLess(x, y)
         IN <<m>> \o Sorted(S \ {m})

\* Position of the first x in s, 0 when there is none (str.find + 1).
Find(s, x) ==
    IF x \in Range(s) THEN CHOOSE i \in 1..Len(s) : s[i] = x /\ \A j \in 1..(i - 1) : s[j] # x
    ELSE 0

\* Position of the last x in s, 0 when there is none.
RFind(s, x) ==
    IF x \in Range(s) THEN CHOOSE i \in 1..Len(s) : s[i] = x /\ \A j \in (i + 1)..Len(s) : s[j] # x
    ELSE 0

SqlSuffix == <<".", "s", "q", "l">>

\* Path.stem: the name without its last suffix.
Stem(filename) ==
    LET d == RFind(filename, ".")
    IN IF d <= 1 THEN filename ELSE Slice(filename, 1, d - 1)

\* glob("*.sql")
MatchesSqlGlob(filename) ==
    /\ Len(filename) >= Len(SqlSuffix)
    /\ Slice(filename, Len(filename) - Len(SqlSuffix) + 1, Len(filename)) = SqlSuffix

\* int(text) for text over the characters above: a non-empty run of digits,
\* anything else is a ValueError.
IsInt(text) == text # <<>> /\ \A i \in 1..Len(text) : IsDigit(text[i])

RECURSIVE ParseInt(_)
ParseInt(text) ==
    IF text = <<>> THEN 0
    ELSE 10 * ParseInt(Slice(text, 1, Len(text) - 1)) + DigitVal(text[Len(text)])

\* str(n) for n >= 0.
RECURSIVE Decimal(_)
Decimal(n) ==
    IF n < 10 THEN <<DigitChars[n + 1]>>
    ELSE Decimal(n \div 10) \o <<DigitChars[(n % 10) + 1]>>

RECURSIVE ZeroPad(_, _)
ZeroPad(text, width) == IF Len(text) >= width THEN text ELSE ZeroPad(<<"0">> \o text, width)

PadWidth == 4

\* f"{n:04d}"
Format04d(n) == ZeroPad(Decimal(n), PadWidth)

(***************************************************************************)
(* The migration store: MigrationManager.                                  *)
(***************************************************************************)
\* filename.split("_", 1) has two parts.
HasTwoParts(stem) == Find(stem, "_") > 0

NumberPart(stem) == Slice(stem, 1, Find(stem, "_") - 1)

NamePart(stem) == Slice(stem, Find(stem, "_") + 1, Len(stem))

\* The files get_all_migrations does not skip.
WellFormed(filename) ==
    /\ MatchesSqlGlob(filename)
    /\ HasTwoParts(Stem(filename))
    /\ IsInt(NumberPart(Stem(filename)))

\* f.read() of a file opened in text mode: a carriage return, alone or before
\* a line feed, is read as one line feed.
ReadText(content) ==
    LET BeforeLineFeed(i) ==
            content[i] = "\r" /\ i < Len(content) /\ content[i + 1] = "\n"
        Kept(i) == ~BeforeLineFeed(i)
        kept == SelectSeq([i \in 1..Len(content) |-> i], Kept)
    IN [j \in 1..Len(kept) |-> IF content[kept[j]] = "\r" THEN "\n" ELSE content[kept[j]]]

MigrationFile(st, filename) ==
    [number |-> ParseInt(NumberPart(Stem(filename))),
     name |-> NamePart(Stem(filename)),
     filename |-> filename,
     sql_content |-> ReadText(st[filename])]

\* The order in which get_all_migrations visits the files.
GlobOrder(st) == Sorted({f \in DOMAIN st : MatchesSqlGlob(f)})

\* Contents standing for a file open() or f.read() fails on: one the process
\* may neither read nor write (a file of mode 000), and one whose bytes do not
\* decode.
NoPermission == <<"EACCES">>

BadEncoding == <<"\\xff">>

\* with open(filepath) as f: sql_content = f.read()
ReadOutcome(content) ==
    IF content = NoPermission THEN "PermissionError"
    ELSE IF content = BadEncoding THEN "UnicodeDecodeError"
    ELSE "ok"

\* The classes an exception is an instance of.
ExceptionBases(exc) ==
    CASE exc = "PermissionError" -> {"PermissionError", "OSError", "Exception"}
      [] exc = "UnicodeDecodeError" -> {"UnicodeDecodeError", "ValueError", "Exception"}
      [] exc = "OperationalError" -> {"OperationalError", "SQLAlchemyError", "Exception"}
      [] OTHER -> {exc, "Exception"}

CaughtClasses == {"OSError", "ValueError"}

\* Mutant of Caught: only OSError is caught.
CaughtOSErrorOnly(exc) == "OSError" \in ExceptionBases(exc)

\* except (OSError, ValueError)
Caught(exc) == ExceptionBases(exc) \cap CaughtClasses # {}

\* The body of the loop for one file: "ok" when the file is appended,
\* "continue" when it has no two parts, else the exception raised.
VisitOutcome(st, filename) ==
    IF ~HasTwoParts(Stem(filename)) THEN "continue"
    ELSE IF ~IsInt(NumberPart(Stem(filename))) THEN "ValueError"
    ELSE ReadOutcome(st[filename])

\* An exception of the loop body that the except clause lets through.
GetAllMigrationsRaises(st) ==
    \E f \in {g \in DOMAIN st : MatchesSqlGlob(g)} :
        LET outcome == VisitOutcome(st, f)
        IN outcome \notin {"ok", "continue"} /\ ~Caught(outcome)

GetAllMigrations(st) ==
    LET Appended(f) == VisitOutcome(st, f) = "ok"
        visited == SelectSeq(GlobOrder(st), Appended)
    IN [i \in 1..Len(visited) |-> MigrationFile(st, visited[i])]

PendingMigration(m) == [filename |-> m.filename, sql_content |-> m.sql_content]

\* Mutant of GetAppliedMigrations: the rows come back in insertion order.
GetAppliedMigrationsUnordered(led) == led

\* db_manager.get_applied_migrations(): the ledger's file names ordered by
\* filename.
GetAppliedMigrations(led) == Sorted(Range(led))

\* Mutant of IsPending: the applied file names are not filtered out.
IsPendingUnfiltered(m, applied) == TRUE

\* Mutant of IsPending: the migration's name is looked up among the applied
\* file names.
IsPendingByName(m, applied) == m.name \notin applied

\* if migration.filename not in applied_migrations
IsPending(m, applied) == m.filename \notin applied

GetPendingMigrations(st, led) ==
    LET all_migrations == GetAllMigrations(st)
        applied_migrations == Range(GetAppliedMigrations(led))
        Keep(m) == IsPending(m, applied_migrations)
        kept == SelectSeq(all_migrations, Keep)
    IN [i \in 1..Len(kept) |-> PendingMigration(kept[i])]

SavedName(migration_number, migration_name) ==
    Format04d(migration_number) \o <<"_">> \o migration_name \o SqlSuffix

\* open(filepath, "w") of save_migration: refused on a file the process may
\* not write.
WriteOutcome(st, filename) ==
    IF filename \in DOMAIN st /\ st[filename] = NoPermission THEN "PermissionError"
    ELSE "ok"

\* save_migration: open(filepath, "w") creates the file or replaces its
\* text; when the open is refused the exception leaves save_migration and the
\* directory is as it was.
SaveMigrationStore(st, migration_number, migration_name, sql_content) ==
    LET filename == SavedName(migration_number, migration_name)
    IN IF WriteOutcome(st, filename) # "ok" THEN st
       ELSE [f \in DOMAIN st \cup {filename} |->
                IF f = filename THEN sql_content ELSE st[f]]

\* The next sequence number of a creation: one greater than the highest
\* stored migration number, 1 for a store without migrations.
NextNumber(st) ==
    LET all == GetAllMigrations(st)
        nums == {all[i].number : i \in 1..Len(all)}
    IN IF nums = {} THEN 1 ELSE (CHOOSE n \in nums : \A k \in nums : k <= n) + 1

(***************************************************************************)
(* MigrationManager.create_migration_name.                                 *)
(***************************************************************************)
\* Characters outside ASCII, each written as the name of its code point:
\* the capital I with a dot above, the combining dot above, the Kelvin sign,
\* the capital and the small E with an acute accent, the small sharp s.
DottedCapitalI == "U+0130"

CombiningDot == "U+0307"

KelvinSign == "U+212A"

CapitalEAcute == "U+00C9"

SmallEAcute == "U+00E9"

SmallSharpS == "U+00DF"

\* str.lower() of one character, as the characters it gives: the ASCII
\* capitals and the capital E acute have one small letter, the Kelvin sign
\* gives the ASCII k, the dotted capital I gives i and the combining dot
\* (two characters); the other characters of the model are their own.
LowerChar(c) ==
    IF IsUpper(c) THEN <<LowerChars[CHOOSE i \in 1..26 : UpperChars[i] = c]>>
    ELSE IF c = DottedCapitalI THEN <<"i", CombiningDot>>
    ELSE IF c = KelvinSign THEN <<"k">>
    ELSE IF c = CapitalEAcute THEN <<SmallEAcute>>
    ELSE <<c>>

\* str.lower(): the text may get longer.
RECURSIVE Lower(_)
Lower(text) ==
    IF text = <<>> THEN <<>> ELSE LowerChar(Head(text)) \o Lower(Tail(text))

\* str.strip() of the description: blanks, tabs and line ends.
RECURSIVE StripSpace(_)
StripSpace(text) ==
    IF text = <<>> THEN text
    ELSE IF Head(text) \in {" ", "\t", "\n"} THEN StripSpace(Tail(text))
    ELSE IF text[Len(text)] \in {" ", "\t", "\n"}
         THEN StripSpace(SubSeq(text, 1, Len(text) - 1))
    ELSE text

\* The characters of [a-z0-9_].
IsSlugChar(c) == IsLower(c) \/ IsDigit(c) \/ c = "_"

\* re.sub(r"[^a-z0-9_]", "_", name)
ReplaceUnsafe(text) == [i \in 1..Len(text) |-> IF IsSlugChar(text[i]) THEN text[i] ELSE "_"]

\* Mutant of CollapseUnderscores: the underscores are removed, not collapsed.
CollapseUnderscoresToNothing(text) ==
    LET NotUnderscore(c) == c # "_"
    IN SelectSeq(text, NotUnderscore)

\* re.sub(r"_+", "_", name)
RECURSIVE CollapseUnderscores(_)
CollapseUnderscores(text) ==
    IF Len(text) < 2 THEN text
    ELSE IF text[1] = "_" /\ text[2] = "_" THEN CollapseUnderscores(Tail(text))
    ELSE <<text[1]>> \o CollapseUnderscores(Tail(text))

\* name.rstrip("_")
RECURSIVE RStripUnderscore(_)
RStripUnderscore(text) ==
    IF text # <<>> /\ text[Len(text)] = "_"
    THEN RStripUnderscore(SubSeq(text, 1, Len(text) - 1))
    ELSE text

RECURSIVE LStripUnderscore(_)
LStripUnderscore(text) ==
    IF text # <<>> /\ Head(text) = "_" THEN LStripUnderscore(Tail(text)) ELSE text

\* name.strip("_")
StripUnderscore(text) == RStripUnderscore(LStripUnderscore(text))

NameLimit == 50

\* Mutant of LimitLength: the cut name keeps a trailing underscore.
LimitLengthNoStrip(text) ==
    IF Len(text) > NameLimit THEN SubSeq(text, 1, NameLimit) ELSE text

\* if len(name) > 50: name = name[:50].rstrip("_")
LimitLength(text) ==
    IF Len(text) > NameLimit THEN RStripUnderscore(SubSeq(text, 1, NameLimit)) ELSE text

PlaceholderName == <<"m", "i", "g", "r", "a", "t", "i", "o", "n">>

\* if not name: name = "migration"
OrPlaceholder(text) == IF text = <<>> THEN PlaceholderName ELSE text

CreateMigrationName(description) ==
    OrPlaceholder(LimitLength(StripUnderscore(CollapseUnderscores(
        ReplaceUnsafe(StripSpace(Lower(description)))))))

(***************************************************************************)
(* Migration SQL text: a sequence of tokens.                               *)
(***************************************************************************)
Whitespace == {" ", "\n"}

CommentMark == "--"

\* text.split(sep): the pieces between the separators, empty pieces kept.
RECURSIVE Split(_, _)
Split(text, sep) ==
    LET k == Find(text, sep)
    IN IF k = 0 THEN <<text>>
       ELSE <<Slice(text, 1, k - 1)>> \o Split(Slice(text, k + 1, Len(text)), sep)

\* text.strip()
RECURSIVE LStrip(_)
LStrip(text) ==
    IF text # <<>> /\ Head(text) \in Whitespace THEN LStrip(Tail(text)) ELSE text

RECURSIVE RStrip(_)
RStrip(text) ==
    IF text # <<>> /\ text[Len(text)] \in Whitespace
    THEN RStrip(Slice(text, 1, Len(text) - 1))
    ELSE text

Strip(text) == RStrip(LStrip(text))

\* sep.join(parts)
RECURSIVE Join(_, _)
Join(parts, sep) ==
    IF parts = <<>> THEN <<>>
    ELSE IF Len(parts) = 1 THEN parts[1]
    ELSE parts[1] \o <<sep>> \o Join(Tail(parts), sep)

\* line.startswith("--")
IsCommentLine(line) == line # <<>> /\ Head(line) = CommentMark

\* Mutant of KeepLine: the comment lines stay in the statement.
KeepLineWithComments(line) == line # <<>>

\* The lines apply_migration keeps of one statement.
KeepLine(line) == line # <<>> /\ ~IsCommentLine(line)

\* One statement with its blank and comment lines removed.
CleanStatement(statement) ==
    LET lines == Split(statement, "\n")
        stripped == [i \in 1..Len(lines) |-> Strip(lines[i])]
        sql_lines == SelectSeq(stripped, KeepLine)
    IN Strip(Join(sql_lines, "\n"))

\* [stmt.strip() for stmt in sql_content.split(";")]
Statements(sql_content) ==
    LET pieces == Split(sql_content, ";")
    IN [i \in 1..Len(pieces) |-> Strip(pieces[i])]

NonEmpty(text) == text # <<>>

\* The statements apply_migration sends to the session, in the order of the
\* loop.
CleanStatements(sql_content) ==
    LET statements == SelectSeq(Statements(sql_content), NonEmpty)
        cleaned == [i \in 1..Len(statements) |-> CleanStatement(statements[i])]
    IN SelectSeq(cleaned, NonEmpty)

(***************************************************************************)
(* The target database behind the session.  A statement is one DDL command *)
(* on a table; anything else is refused with a database error.             *)
(***************************************************************************)
Tables == {"a", "b", "c"}

CreateCommands == {"CREATE a", "CREATE b", "CREATE c"}

DropCommands == {"DROP a", "DROP b", "DROP c"}

AlterCommands == {"ALTER a", "ALTER b", "ALTER c"}

DropConstraint == "DROP CONSTRAINT"

TableOf(command) ==
    CASE command \in {"CREATE a", "DROP a", "ALTER a"} -> "a"
      [] command \in {"CREATE b", "DROP b", "ALTER b"} -> "b"
      [] command \in {"CREATE c", "DROP c", "ALTER c"} -> "c"

\* The words of a statement the database parses: not the white space, not
\* what follows a comment mark on its line.
RECURSIVE DbWords(_, _)
DbWords(statement, inComment) ==
    IF statement = <<>> THEN <<>>
    ELSE LET t == Head(statement)
         IN IF t = "\n" THEN DbWords(Tail(statement), FALSE)
            ELSE IF inComment \/ t = CommentMark THEN DbWords(Tail(statement), TRUE)
            ELSE IF t = " " THEN DbWords(Tail(statement), FALSE)
            ELSE <<t>> \o DbWords(Tail(statement), FALSE)

\* Does the database accept the statement in a schema holding `tables`.
\* A table is created when it is not there and dropped when it is.  An ALTER
\* TABLE ... DROP CONSTRAINT is refused in every schema: a table made by the
\* generated CREATE TABLE holds columns only, so there is no constraint of
\* that name to drop (and SQLite has no such statement).
DbAccepts(tables, statement) ==
    LET words == DbWords(statement, FALSE)
    IN /\ Len(words) = 1
       /\ \/ words[1] \in CreateCommands /\ TableOf(words[1]) \notin tables
          \/ words[1] \in DropCommands /\ TableOf(words[1]) \in tables

\* The schema after an accepted statement.
DbEffect(tables, statement) ==
    LET command == DbWords(statement, FALSE)[1]
    IN IF command \in CreateCommands THEN tables \cup {TableOf(command)}
       ELSE IF command \in DropCommands THEN tables \ {TableOf(command)}
       ELSE tables

(***************************************************************************)
(* The applier: DatabaseManager.apply_migration.                           *)
(***************************************************************************)
Event(ev, arg) == [ev |-> ev, arg |-> arg]

\* The loop over the statements: every statement is executed in turn on the
\* session until one is refused.  done: how many were accepted; tables: the
\* schema the session sees after them; error: one was refused.
RECURSIVE RunStatements(_, _, _)
RunStatements(statements, tables, done) ==
    IF statements = <<>> THEN [done |-> done, tables |-> tables, error |-> FALSE]
    ELSE IF ~DbAccepts(tables, Head(statements))
         THEN [done |-> done, tables |-> tables, error |-> TRUE]
         ELSE RunStatements(Tail(statements), DbEffect(tables, Head(statements)), done + 1)

\* Column("filename", ..., unique=True): the insert is refused when a row
\* holds the file name already.
LedgerInsertAccepted(led, filename) == filename \notin Range(led)

\* Mutant of SessionLog: the ledger row is inserted before the statements run.
SessionLogInsertFirst(statements, run, filename, end) ==
    LET attempted == IF run.error THEN run.done + 1 ELSE run.done
        executes == [i \in 1..attempted |-> [ev |-> "execute", arg |-> statements[i]]]
    IN <<[ev |-> "begin", arg |-> <<>>], [ev |-> "insert", arg |-> filename]>>
           \o executes \o <<[ev |-> end, arg |-> <<>>]>>

\* What the session was asked to do, in order: begin, the statements up to
\* and with the refused one, the ledger insert when none was refused, and the
\* end of the transaction.
SessionLog(statements, run, filename, end) ==
    LET attempted == IF run.error THEN run.done + 1 ELSE run.done
        executes == [i \in 1..attempted |-> Event("execute", statements[i])]
        insert == IF run.error THEN <<>> ELSE <<Event("insert", filename)>>
    IN <<Event("begin", <<>>)>> \o executes \o insert \o <<Event(end, <<>>)>>

\* The durable schema when the transaction ends.  A rollback restores the
\* schema only on an engine whose DDL is transactional; on the others every
\* accepted DDL statement was made durable when it ran.
SchemaAfter(tx, raised, before, session) ==
    IF raised /\ tx THEN before ELSE session

\* Mutant of LedgerAfter: the row is inserted outside the transaction and
\* survives the rollback.
LedgerAfterKeepsRow(raised, led, filename) == Append(led, filename)

\* Mutant of LedgerAfter: the row is not part of what the commit keeps.
LedgerAfterRowLost(raised, led, filename) == led

\* The ledger when the transaction ends: the row is kept by the commit.
LedgerAfter(raised, led, filename) ==
    IF raised THEN led ELSE Append(led, filename)

\* Did every statement of the migration run and stay in the database.
StatementsDurable(tx, raised, run) == ~run.error /\ (~tx \/ ~raised)

\* Mutant of With: the exit is skipped when the body is left by an exception.
WithNoExitOnError(enter, exit, body, byException) ==
    IF byException THEN <<enter>> \o body ELSE <<enter>> \o body \o <<exit>>

\* with <enter>: <body> -- the context manager's exit runs however the body
\* is left.
With(enter, exit, body, byException) == <<enter>> \o body \o <<exit>>

\* with self.SessionClass() as session: ... with session.begin(): ...
ApplyScope(raised) ==
    With("Session()", "session.close()",
         With("session.begin()", IF raised THEN "rollback" ELSE "commit", <<>>, raised),
         raised)

\* A session or a connection used for one statement: the statement begins a
\* transaction that the close ends.
StatementScope(enter, exit, byException) ==
    With(enter, exit, <<"autobegin">>, byException)

ApplyMigrationRun(tx, tables, led, migration) ==
    LET statements == CleanStatements(migration.sql_content)
        run == RunStatements(statements, tables, 0)
        raised == run.error \/ ~LedgerInsertAccepted(led, migration.filename)
        end == IF raised THEN "rollback" ELSE "commit"
    IN [raised |-> raised,
        log |-> SessionLog(statements, run, migration.filename, end),
        schema |-> SchemaAfter(tx, raised, tables, run.tables),
        ledger |-> LedgerAfter(raised, led, migration.filename),
        durable |-> StatementsDurable(tx, raised, run),
        scope |-> ApplyScope(raised)]

(***************************************************************************)
(* The SQL generator: MigrationManager.generate_sql and _operation_to_sql. *)
(* An operation is its kind, its table, its object name ("" for none) and  *)
(* whether the definitions the translation reads are there.                *)
(***************************************************************************)
Operation(operation_type, table_name, object_name, defined) ==
    [operation_type |-> operation_type, table_name |-> table_name,
     object_name |-> object_name, defined |-> defined]

\* str(operation): one line naming the kind, the table and the object.
OperationText(operation) ==
    IF operation.object_name = ""
    THEN <<operation.operation_type, " ", operation.table_name>>
    ELSE <<operation.operation_type, " ", operation.table_name, ".",
           operation.object_name>>

CreateCommandOf(table) == CHOOSE c \in CreateCommands : TableOf(c) = table

DropCommandOf(table) == CHOOSE c \in DropCommands : TableOf(c) = table

AlterCommandOf(table) == CHOOSE c \in AlterCommands : TableOf(c) = table

Translated(sql) == [exc |-> "none", sql |-> sql]

\* Reading an attribute of a definition that is None.
AttributeError == [exc |-> "AttributeError", sql |-> <<>>]

AlterColumnComment(operation) ==
    <<"--", " ", "ALTER COLUMN", " ", operation.table_name, ".", operation.object_name, "\n",
      "--", " ", "Note: Column alteration may require database-specific syntax", "\n",
      "--", " ", "Old:", " ", "old_col", "\n",
      "--", " ", "New:", " ", "new_col">>

\* A column of a snapshot as the generator reads it.  default is the default
\* expression, NoDefault for none.
NoDefault == ""

ColumnDef(name, type, nullable, default, unique, primary_key, autoincrement) ==
    [name |-> name, type |-> type, nullable |-> nullable, default |-> default,
     unique |-> unique, primary_key |-> primary_key, autoincrement |-> autoincrement]

TableDef(name, columns) == [name |-> name, columns |-> columns]

\* An operation that carries its new definition.
DefinedOperation(operation_type, table_name, object_name, new_definition) ==
    [operation_type |-> operation_type, table_name |-> table_name,
     object_name |-> object_name, defined |-> TRUE, new_definition |-> new_definition]

\* A declared column type is text: a sequence of one-character strings.
TypeInteger == <<"I", "N", "T", "E", "G", "E", "R">>

TypeIntegerLower == <<"i", "n", "t", "e", "g", "e", "r">>

TypeFloat == <<"F", "L", "O", "A", "T">>

TypeText == <<"T", "E", "X", "T">>

TypeBoolean == <<"B", "O", "O", "L", "E", "A", "N">>

TypeDatetime == <<"D", "A", "T", "E", "T", "I", "M", "E">>

TypeVarchar == <<"V", "A", "R", "C", "H", "A", "R">>

TypeVarchar100 == TypeVarchar \o <<"(", "1", "0", "0", ")">>

TypeVarchar200Lower == <<"v", "a", "r", "c", "h", "a", "r", "(", "2", "0", "0", ")">>

TypeVarcharMax == TypeVarchar \o <<"(", "M", "A", "X", ")">>

\* str.upper() of one character, as the characters it gives: the ASCII
\* small letters and the small E acute have one capital, the small sharp s
\* gives SS (two characters); the other characters of the model are their
\* own.
UpperChar(c) ==
    IF IsLower(c) THEN <<UpperChars[CHOOSE i \in 1..26 : LowerChars[i] = c]>>
    ELSE IF c = SmallSharpS THEN <<"S", "S">>
    ELSE IF c = SmallEAcute THEN <<CapitalEAcute>>
    ELSE <<c>>

\* str.upper(): the text may get longer.
RECURSIVE Upper(_)
Upper(text) ==
    IF text = <<>> THEN <<>> ELSE UpperChar(Head(text)) \o Upper(Tail(text))

\* text.startswith(prefix)
StartsWith(text, prefix) ==
    Len(text) >= Len(prefix) /\ SubSeq(text, 1, Len(prefix)) = prefix

\* int(text) of the length: blanks around the number are dropped, a sign may
\* lead, and the digits may hold single underscores between them; anything
\* else is a ValueError.
IntBody(text) ==
    LET t == StripSpace(text)
    IN IF t # <<>> /\ Head(t) \in {"+", "-"} THEN Tail(t) ELSE t

IsIntLiteral(text) ==
    LET b == IntBody(text)
    IN /\ b # <<>>
       /\ IsDigit(b[1])
       /\ IsDigit(b[Len(b)])
       /\ \A i \in 1..Len(b) : IsDigit(b[i]) \/ (b[i] = "_" /\ IsDigit(b[i + 1]))

IntOf(text) ==
    LET n == ParseInt(SelectSeq(IntBody(text), IsDigit))
    IN IF Head(StripSpace(text)) = "-" THEN 0 - n ELSE n

\* A SQLAlchemy column type: the class and, for String(n), the length.
SqlType(class, length) == [class |-> class, length |-> length]

NoLength == <<>>

\* type_mapping.get(col_type_str, String)
TypeMapping(col_type_str) ==
    CASE col_type_str = TypeInteger -> "Integer"
      [] col_type_str = TypeVarchar -> "String"
      [] col_type_str = TypeText -> "Text"
      [] col_type_str = TypeBoolean -> "Boolean"
      [] col_type_str = TypeDatetime -> "DateTime"
      [] OTHER -> "String"

\* col_type_str.split("(")[1].split(")")[0]
LengthText(col_type_str) == Split(Split(col_type_str, "(")[2], ")")[1]

\* The type of the column built for a declared type (lines 179-189): the
\* name is upper-cased; a name that starts with VARCHAR is String, with the
\* length read by int() when the name holds a "("; every other name is
\* looked up in type_mapping, String when it is not there.
ColumnType(type) ==
    LET col_type_str == Upper(type)
    IN IF StartsWith(col_type_str, TypeVarchar)
       THEN IF "(" \in Range(col_type_str)
            THEN IF IsIntLiteral(LengthText(col_type_str))
                 THEN [exc |-> "none",
                       type |-> SqlType("String", <<IntOf(LengthText(col_type_str))>>)]
                 ELSE [exc |-> "ValueError", type |-> SqlType("", NoLength)]
            ELSE [exc |-> "none", type |-> SqlType("String", NoLength)]
       ELSE [exc |-> "none", type |-> SqlType(TypeMapping(col_type_str), NoLength)]

\* One turn of the loop over table_def.columns: the type, then
\* Column(col_def.name, col_type, nullable=..., primary_key=..., unique=...,
\* autoincrement=...): no default is handed over.
BuildColumn(col_def) ==
    LET t == ColumnType(col_def.type)
    IN [exc |-> t.exc,
        column |-> ColumnDef(col_def.name, t.type, col_def.nullable, NoDefault,
                             col_def.unique, col_def.primary_key, col_def.autoincrement)]

HasDuplicateNames(columns) ==
    \E i, j \in 1..Len(columns) : i < j /\ columns[i].name = columns[j].name

\* The columns of a table to which columns of a name it holds already were
\* added with replacement: each name once, at the place of its first column,
\* with its last column.
ReplaceColumns(columns) ==
    LET First(i) == \A j \in 1..(i - 1) : columns[j].name # columns[i].name
        firsts == SelectSeq([i \in 1..Len(columns) |-> i], First)
        LastOf(i) ==
            CHOOSE j \in 1..Len(columns) :
                /\ columns[j].name = columns[i].name
                /\ \A k \in (j + 1)..Len(columns) : columns[k].name # columns[i].name
    IN [n \in 1..Len(firsts) |-> columns[LastOf(firsts[n])]]

\* Table(table_def.name, temp_metadata, *columns): a column of a name the
\* table holds already is refused with an ArgumentError by SQLAlchemy 2.x
\* and replaces the earlier one in SQLAlchemy 1.4.
TableConstructor(name, columns) ==
    IF HasDuplicateNames(columns) /\ strictColumns
    THEN [exc |-> "ArgumentError", name |-> name, columns |-> <<>>]
    ELSE [exc |-> "none", name |-> name, columns |-> ReplaceColumns(columns)]

\* _build_sqlalchemy_table(table_def, metadata): the columns are built in
\* order, the exception of the first column that raises leaves the function;
\* then the table is made of them.
BuildSqlalchemyTable(table_def) ==
    LET built == [i \in 1..Len(table_def.columns) |-> BuildColumn(table_def.columns[i])]
        raising == {i \in 1..Len(built) : built[i].exc # "none"}
    IN IF raising # {}
       THEN [exc |-> built[CHOOSE i \in raising : \A j \in raising : i <= j].exc,
             name |-> table_def.name, columns |-> <<>>]
       ELSE TableConstructor(table_def.name, [i \in 1..Len(built) |-> built[i].column])

\* Mutant of AddColumnParts: UNIQUE is put before DEFAULT.
AddColumnPartsUniqueFirst(col_def) ==
    <<<<"ADD COLUMN", " ", col_def.name, " ">> \o col_def.type>>
        \o (IF ~col_def.nullable THEN <<<<"NOT NULL">>>> ELSE <<>>)
        \o (IF col_def.unique THEN <<<<"UNIQUE">>>> ELSE <<>>)
        \o (IF col_def.default # NoDefault
            THEN <<<<"DEFAULT", " ", col_def.default>>>> ELSE <<>>)

\* parts of the ADD_COLUMN branch
AddColumnParts(col_def) ==
    <<<<"ADD COLUMN", " ", col_def.name, " ">> \o col_def.type>>
        \o (IF ~col_def.nullable THEN <<<<"NOT NULL">>>> ELSE <<>>)
        \o (IF col_def.default # NoDefault
            THEN <<<<"DEFAULT", " ", col_def.default>>>> ELSE <<>>)
        \o (IF col_def.unique THEN <<<<"UNIQUE">>>> ELSE <<>>)

\* f"ALTER TABLE {operation.table_name} {' '.join(parts)};"
AddColumnSql(table_name, col_def) ==
    <<"ALTER TABLE", " ", table_name, " ">> \o Join(AddColumnParts(col_def), " ") \o <<";">>

\* An index and a foreign key of a snapshot as the generator reads them.
IndexDef(name, columns, unique) == [name |-> name, columns |-> columns, unique |-> unique]

ForeignKeyDef(name, columns, referred_table, referred_columns, ondelete, onupdate) ==
    [name |-> name, columns |-> columns, referred_table |-> referred_table,
     referred_columns |-> referred_columns, ondelete |-> ondelete, onupdate |-> onupdate]

\* ", ".join(names)
CommaList(names) == Join([i \in 1..Len(names) |-> <<names[i]>>], ", ")

\* f"CREATE {unique_clause}INDEX {idx_def.name} ON {operation.table_name} ({columns});"
CreateIndexSql(table_name, idx_def) ==
    <<"CREATE", " ">> \o (IF idx_def.unique THEN <<"UNIQUE", " ">> ELSE <<>>)
        \o <<"INDEX", " ", idx_def.name, " ", "ON", " ", table_name, " ", "(">>
        \o CommaList(idx_def.columns) \o <<")", ";">>

\* f"ALTER TABLE {operation.table_name} ADD {fk_clause};"
AddForeignKeySql(table_name, fk_def) ==
    <<"ALTER TABLE", " ", table_name, " ", "ADD", " ">>
        \o (IF fk_def.name # "" THEN <<"CONSTRAINT", " ", fk_def.name, " ">> ELSE <<>>)
        \o <<"FOREIGN KEY", " ", "(">> \o CommaList(fk_def.columns)
        \o <<")", " ", "REFERENCES", " ", fk_def.referred_table, " ", "(">>
        \o CommaList(fk_def.referred_columns) \o <<")">>
        \o (IF fk_def.ondelete # "" THEN <<" ", "ON DELETE", " ", fk_def.ondelete>> ELSE <<>>)
        \o (IF fk_def.onupdate # "" THEN <<" ", "ON UPDATE", " ", fk_def.onupdate>> ELSE <<>>)
        \o <<";">>

\* Mutant of UnsupportedOperation: an unknown kind raises.
UnsupportedOperationRaises(operation) == [exc |-> "ValueError", sql |-> <<>>]

\* return f"-- Unsupported operation: {operation.operation_type}"
UnsupportedOperation(operation) ==
    Translated(<<"--", " ", "Unsupported operation:", " ", operation.operation_type>>)

\* _operation_to_sql(operation, metadata, engine)
OperationToSql(operation) ==
    CASE operation.operation_type = "CREATE_TABLE" ->
            IF ~operation.defined THEN AttributeError
            ELSE LET table == BuildSqlalchemyTable(operation.new_definition)
                 IN IF table.exc # "none" THEN [exc |-> table.exc, sql |-> <<>>]
                    ELSE Translated(<<CreateCommandOf(operation.table_name), ";">>)
      [] operation.operation_type = "DROP_TABLE" ->
            Translated(<<DropCommandOf(operation.table_name), ";">>)
      [] operation.operation_type = "ALTER_COLUMN" ->
            IF operation.defined
            THEN Translated(AlterColumnComment(operation))
            ELSE AttributeError
      [] operation.operation_type = "DROP_FOREIGN_KEY" ->
            IF operation.object_name # ""
            THEN Translated(<<AlterCommandOf(operation.table_name), " ", DropConstraint,
                              " ", operation.object_name, ";">>)
            ELSE Translated(<<"--", " ", "DROP FOREIGN KEY on", " ",
                              operation.table_name, " ",
                              "(no constraint name available)">>)
      [] operation.operation_type = "ADD_COLUMN" ->
            IF operation.defined
            THEN Translated(AddColumnSql(operation.table_name, operation.new_definition))
            ELSE AttributeError
      [] operation.operation_type = "DROP_COLUMN" ->
            Translated(<<AlterCommandOf(operation.table_name), " ", "DROP COLUMN", " ",
                         operation.object_name, ";">>)
      [] operation.operation_type = "CREATE_INDEX" ->
            IF operation.defined
            THEN Translated(CreateIndexSql(operation.table_name, operation.new_definition))
            ELSE AttributeError
      [] operation.operation_type = "DROP_INDEX" ->
            Translated(<<"DROP INDEX", " ", operation.object_name, ";">>)
      [] operation.operation_type = "ADD_FOREIGN_KEY" ->
            IF operation.defined
            THEN Translated(AddForeignKeySql(operation.table_name, operation.new_definition))
            ELSE AttributeError
      [] OTHER -> UnsupportedOperation(operation)

\* Mutant of CaughtByGenerate: the translation's exception is let through.
CaughtNothing(exc) == FALSE

\* except Exception as e
CaughtByGenerate(exc) == "Exception" \in ExceptionBases(exc)

\* f"-- {operation}"
OperationComment(operation) == <<"--", " ">> \o OperationText(operation)

\* f"-- WARNING: Could not generate SQL for {operation}: {e}"
WarningComment(operation, exc) ==
    <<"--", " ", "WARNING: Could not generate SQL for", " ">>
        \o OperationText(operation) \o <<":", " ", exc>>

\* Mutant of OperationLines: the blank line after a block is left out.
OperationLinesNoBlank(operation) ==
    LET t == OperationToSql(operation)
    IN IF t.exc # "none" THEN <<WarningComment(operation, t.exc)>>
       ELSE <<OperationComment(operation), t.sql>>

\* What one turn of the loop appends to sql_statements.
OperationLines(operation) ==
    LET t == OperationToSql(operation)
    IN IF t.exc # "none" THEN <<WarningComment(operation, t.exc), <<>>>>
       ELSE IF t.sql # <<>> THEN <<OperationComment(operation), t.sql, <<>>>>
       ELSE <<>>

RECURSIVE SqlStatements(_)
SqlStatements(ops) ==
    IF ops = <<>> THEN <<>>
    ELSE OperationLines(Head(ops)) \o SqlStatements(Tail(ops))

\* An exception of a translation that the loop does not catch.
GenerateSqlRaises(ops) ==
    \E i \in 1..Len(ops) :
        /\ OperationToSql(ops[i]).exc # "none"
        /\ ~CaughtByGenerate(OperationToSql(ops[i]).exc)

\* Mutant of GenerateSql: an empty plan gives a comment instead of nothing.
GenerateSqlNoChanges(ops) ==
    IF ops = <<>> THEN <<"--", " ", "No changes">> ELSE Join(SqlStatements(ops), "\n")

\* generate_sql(operations, metadata)
GenerateSql(ops) ==
    IF ops = <<>> THEN <<>> ELSE Join(SqlStatements(ops), "\n")

(***************************************************************************)
(* The ledger table, the diagnostics and the construction of                *)
(* DatabaseManager.  A database error is the text the database gives; the  *)
(* engine raises it as an OperationalError, which is an SQLAlchemyError.   *)
(***************************************************************************)
NoError == "none"

DbErrorClass == "OperationalError"

IsSQLAlchemyError(exc) == "SQLAlchemyError" \in ExceptionBases(exc)

\* Mutant of EnsureMessage: the message names the failure of the read.
EnsureMessageOfRead(createError, readError) ==
    <<"RuntimeError", "Failed to create or access migrations table:", readError>>

\* RuntimeError(f"Failed to create or access migrations table: {e}")
EnsureMessage(createError, readError) ==
    <<"RuntimeError", "Failed to create or access migrations table:", createError>>

\* _ensure_migrations_table(): create_all, and the bounded read when the
\* creation failed.  create_all creates the table only when it is not there
\* and never touches a row.
EnsureMigrationsTableRun(createError, readError) ==
    IF createError = NoError
    THEN [raised |-> FALSE, error |-> <<>>,
          log |-> <<Event("create_all", NoError)>>]
    ELSE IF ~IsSQLAlchemyError(DbErrorClass)
    THEN [raised |-> TRUE, error |-> <<DbErrorClass, createError>>,
          log |-> <<Event("create_all", createError)>>]
    ELSE IF readError = NoError
    THEN [raised |-> FALSE, error |-> <<>>,
          log |-> <<Event("create_all", createError), Event("select_limit_1", NoError)>>]
    ELSE [raised |-> TRUE, error |-> EnsureMessage(createError, readError),
          log |-> <<Event("create_all", createError),
                    Event("select_limit_1", readError)>>]

\* get_applied_migrations() with the error the query meets.
GetAppliedMigrationsRun(led, dbError) ==
    LET scope == StatementScope("Session()", "session.close()", dbError # NoError)
    IN IF dbError = NoError
       THEN [raised |-> FALSE, error |-> <<>>, result |-> GetAppliedMigrations(led),
             scope |-> scope]
       ELSE [raised |-> TRUE,
             error |-> <<"RuntimeError", "Failed to query applied migrations:", dbError>>,
             result |-> <<>>, scope |-> scope]

\* Mutant of CaughtByDiagnostics: the database error is let through.
DiagnosticsCatchNothing(exc) == FALSE

\* except SQLAlchemyError
CaughtByDiagnostics(exc) == IsSQLAlchemyError(exc)

\* test_connection() and get_database_info(): one statement on a connection
\* of its own.
DiagnosticRun(statement, dbError) ==
    LET log == <<Event("connect", NoError), Event(statement, dbError),
                 Event("close", NoError)>>
        scope == StatementScope("engine.connect()", "conn.close()", dbError # NoError)
    IN IF dbError = NoError
       THEN [raised |-> FALSE, connected |-> TRUE, error |-> <<>>, log |-> log,
             scope |-> scope]
       ELSE IF CaughtByDiagnostics(DbErrorClass)
       THEN [raised |-> FALSE, connected |-> FALSE, error |-> <<dbError>>, log |-> log,
             scope |-> scope]
       ELSE [raised |-> TRUE, connected |-> FALSE, error |-> <<DbErrorClass, dbError>>,
             log |-> log, scope |-> scope]

\* A Python value that is None or a string.
NoneValue == [isNone |-> TRUE, text |-> <<>>]

Str(text) == [isNone |-> FALSE, text |-> text]

\* bool(value)
Truthy(value) == ~value.isNone /\ value.text # <<>>

\* The argument of the constructor: a config object with a db_uri attribute,
\* or the value itself.
ConfigObject(db_uri) == [hasDbUri |-> TRUE, value |-> db_uri]

Plain(value) == [hasDbUri |-> FALSE, value |-> value]

\* Mutant of ConstructorSteps: the URI is checked after the engine is made.
ConstructorStepsCheckLate(db_uri) ==
    IF ~Truthy(db_uri) THEN <<"create_engine">>
    ELSE <<"create_engine", "sessionmaker", "Table", "_ensure_migrations_table">>

\* What __init__ does with the URI, up to the exception or to the end.
ConstructorSteps(db_uri) ==
    IF ~Truthy(db_uri) THEN <<>>
    ELSE <<"create_engine", "sessionmaker", "Table", "_ensure_migrations_table">>

\* DatabaseManager.__init__(db_uri_or_config)
ConstructorRun(arg, createError, readError) ==
    LET db_uri == arg.value
        steps == ConstructorSteps(db_uri)
        ensure == EnsureMigrationsTableRun(createError, readError)
    IN IF ~Truthy(db_uri)
       THEN [raised |-> TRUE, error |-> <<"ValueError", "Database URI is required">>,
             log |-> [i \in 1..Len(steps) |-> Event(steps[i], NoError)]]
       ELSE [raised |-> ensure.raised, error |-> ensure.error,
             log |-> [i \in 1..(Len(steps) - 1) |-> Event(steps[i], NoError)]
                         \o ensure.log]

(***************************************************************************)
(* The inputs of the model.                                                *)
(***************************************************************************)
SqlCreateA == <<"--", " ", "note", "\n", "CREATE a", ";", "\n", "\n">>

SqlDropA == <<"DROP a", ";">>

SqlTwo == <<"CREATE b", ";", "\n", "\n", "--", " ", "note", "\n", "CREATE a", ";", "\n">>

SqlBad == <<"CREATE b", ";", "\n", "BOGUS", ";", "\n", "CREATE c", ";">>

SaveTexts == {SqlDropA}

File0001a == <<"0", "0", "0", "1", "_", "a", ".", "s", "q", "l">>

File0002b == <<"0", "0", "0", "2", "_", "b", ".", "s", "q", "l">>

File0003c == <<"0", "0", "0", "3", "_", "c", ".", "s", "q", "l">>

File9999a == <<"9", "9", "9", "9", "_", "a", ".", "s", "q", "l">>

File10000b == <<"1", "0", "0", "0", "0", "_", "b", ".", "s", "q", "l">>

FileNotes == <<"n", "n", ".", "s", "q", "l">>

FileXPrefix == <<"x", "_", "1", ".", "s", "q", "l">>

File0007d == <<"0", "0", "0", "7", "_", "d", ".", "s", "q", "l">>

File0005e == <<"0", "0", "0", "5", "_", "e", ".", "s", "q", "l">>

StoreEmpty == <<>>

StoreMain ==
    (File0001a :> SqlCreateA) @@ (File0002b :> SqlDropA) @@ (File0003c :> SqlTwo)
        @@ (FileNotes :> SqlDropA) @@ (File0007d :> NoPermission)

StoreWide ==
    (File9999a :> SqlCreateA) @@ (File10000b :> SqlBad) @@ (FileXPrefix :> SqlCreateA)
        @@ (File0005e :> BadEncoding)

InitialStores == {StoreEmpty, StoreMain, StoreWide}

SaveNumbers == {1}

SaveNames == {<<"a">>, <<"b">>}

\* The number and the name of the file StoreMain holds without permissions.
UnwritableNumber == ParseInt(NumberPart(Stem(File0007d)))

UnwritableName == NamePart(Stem(File0007d))

NoCall ==
    [op |-> "none", filename |-> <<>>, sql |-> <<>>, number |-> 0, raised |-> FALSE,
     description |-> <<>>, error |-> <<>>, connected |-> FALSE, scope |-> <<>>,
     retry |-> FALSE, log |-> <<>>, result |-> <<>>, preSchema |-> {}, preLedger |-> <<>>,
     preStore |-> <<>>, old |-> <<>>, new |-> <<>>, name |-> <<>>]

\* The state of one apply_migration that runs step by step: pc is its place
\* in the code, next the index of the statement to execute, locks the tables
\* its open transaction has changed, before those of them that existed when
\* it changed them, effects the number of its statements in effect.
NewApplier == [pc |-> "start", next |-> 1, locks |-> {}, before |-> {}, effects |-> 0]

Managers == {"A", "B"}

NoAppliers == [p \in Managers |-> NewApplier]

Init ==
    /\ store \in InitialStores
    /\ ledger = <<>>
    /\ schema = {}
    /\ txDDL \in BOOLEAN
    /\ durable = <<>>
    /\ failed = {}
    /\ last = NoCall
    /\ napply = 0
    /\ nsave = 0
    /\ operations = <<>>
    /\ appliers = NoAppliers
    /\ strictColumns = TRUE

\* What every call records of the state it started from.
Call(op) ==
    [NoCall EXCEPT !.op = op, !.preSchema = schema, !.preLedger = ledger,
                   !.preStore = store]

(***************************************************************************)
(* The operations.                                                         *)
(***************************************************************************)
\* MigrationManager.save_migration(migration_number, migration_name, sql_content)
SaveMigration(migration_number, migration_name, sql_content) ==
    /\ nsave < MaxSave
    /\ nsave' = nsave + 1
    /\ store' = SaveMigrationStore(store, migration_number, migration_name, sql_content)
    /\ last' = [Call("save_migration") EXCEPT
                   !.raised =
                       WriteOutcome(store, SavedName(migration_number, migration_name)) # "ok",
                   !.filename = SavedName(migration_number, migration_name),
                   !.number = migration_number, !.name = migration_name,
                   !.sql = sql_content]
    /\ UNCHANGED <<appliers, operations, ledger, schema, txDDL, strictColumns, durable, failed, napply>>

\* A migration creation: the script is saved under the next sequence number.
CreateMigration(migration_name, sql_content) ==
    /\ nsave < MaxSave
    /\ nsave' = nsave + 1
    /\ LET number == NextNumber(store)
       IN /\ store' = SaveMigrationStore(store, number, migration_name, sql_content)
          /\ last' = [Call("create_migration") EXCEPT
                         !.raised = WriteOutcome(store, SavedName(number, migration_name)) # "ok",
                         !.filename = SavedName(number, migration_name),
                         !.number = number, !.sql = sql_content]
    /\ UNCHANGED <<appliers, operations, ledger, schema, txDDL, strictColumns, durable, failed, napply>>

\* MigrationManager.get_pending_migrations(db_manager)
FetchPending ==
    /\ LET raises == GetAllMigrationsRaises(store)
       IN last' = [Call("get_pending_migrations") EXCEPT
                      !.raised = raises,
                      !.result = IF raises THEN <<>>
                                 ELSE GetPendingMigrations(store, ledger)]
    /\ UNCHANGED <<appliers, operations, store, ledger, schema, txDDL, strictColumns, durable, failed, napply, nsave>>

\* MigrationManager.get_all_migrations()
ListMigrations ==
    /\ LET raises == GetAllMigrationsRaises(store)
       IN last' = [Call("get_all_migrations") EXCEPT
                      !.raised = raises,
                      !.result = IF raises THEN <<>> ELSE GetAllMigrations(store)]
    /\ UNCHANGED <<appliers, operations, store, ledger, schema, txDDL, strictColumns, durable, failed, napply, nsave>>

\* DatabaseManager.apply_migration(migration)
ApplyMigration(migration) ==
    LET r == ApplyMigrationRun(txDDL, schema, ledger, migration)
    IN /\ napply < MaxApply
       /\ napply' = napply + 1
       /\ schema' = r.schema
       /\ ledger' = r.ledger
       /\ durable' = IF r.durable THEN Append(durable, migration.filename) ELSE durable
       /\ failed' = IF r.raised THEN failed \cup {migration.filename} ELSE failed
       /\ last' = [Call("apply_migration") EXCEPT
                      !.filename = migration.filename, !.sql = migration.sql_content,
                      !.raised = r.raised, !.log = r.log, !.scope = r.scope,
                      !.retry = migration.filename \in failed]
       /\ UNCHANGED <<appliers, operations, store, txDDL, strictColumns, nsave>>

\* _ensure_migrations_table() behind one of its entry points.
EnsureTableCall(op, createError, readError) ==
    LET r == EnsureMigrationsTableRun(createError, readError)
    IN /\ last' = [Call(op) EXCEPT !.raised = r.raised, !.error = r.error, !.log = r.log]
       /\ UNCHANGED <<appliers, operations, store, ledger, schema, txDDL, strictColumns, durable, failed, napply, nsave>>

\* DatabaseManager.ensure_migration_table(): the table exists since the
\* construction, create_all leaves it and its rows alone.
EnsureMigrationTable == EnsureTableCall("ensure_migration_table", NoError, NoError)

\* DatabaseManager.apply_pending_migrations(): the body is `pass`.
ApplyPendingMigrations ==
    /\ last' = Call("apply_pending_migrations")
    /\ UNCHANGED <<appliers, operations, store, ledger, schema, txDDL, strictColumns, durable, failed, napply, nsave>>

\* The migrations a caller can hand to apply_migration: the stored ones,
\* pending or not.
Appliable ==
    LET all == GetAllMigrations(store)
    IN {PendingMigration(all[i]) : i \in 1..Len(all)}

Next ==
    \/ \E n \in SaveNumbers, name \in SaveNames, sql \in SaveTexts :
          SaveMigration(n, name, sql)
    \/ SaveMigration(UnwritableNumber, UnwritableName, SqlDropA)
    \/ \E name \in SaveNames, sql \in SaveTexts : CreateMigration(name, sql)
    \/ FetchPending
    \/ ListMigrations
    \/ \E m \in Appliable : ApplyMigration(m)
    \/ EnsureMigrationTable
    \/ ApplyPendingMigrations

Spec == Init /\ [][Next]_vars

(***************************************************************************)
(* Naming: create_migration_name on its own, and the files save_migration  *)
(* writes under the names it returns.                                      *)
(***************************************************************************)
MaxDescLen == 3

DescChars == {"A", "1", " ", "!", "_", DottedCapitalI}

Repeat(c, n) == [i \in 1..n |-> c]

DescAddEmail ==
    <<"A", "d", "d", " ", "E", "m", "a", "i", "l", " ",
      "C", "o", "l", "u", "m", "n", "!", "!">>

DescMigration == <<"M", "i", "g", "r", "a", "t", "i", "o", "n">>

\* Descriptions around the length limit: at it, one over it, and with a
\* separator right at the cut.
DescAtLimit == Repeat("a", NameLimit)

DescOverLimit == Repeat("a", NameLimit + 1)

DescCutAtSeparator == Repeat("a", NameLimit - 1) \o <<" ", "!", "b", "b">>

\* A description of exactly the limit's length that lower() makes longer.
DescDottedAtLimit == <<DottedCapitalI>> \o Repeat("a", NameLimit - 1)

\* Letters outside ASCII: one whose small form is an ASCII letter and one
\* whose small form is not.
DescKelvin == <<KelvinSign, CapitalEAcute, "B">>

LongDescriptions ==
    {DescAddEmail, DescMigration, DescAtLimit, DescOverLimit, DescCutAtSeparator,
     DescDottedAtLimit, DescKelvin}

Descriptions ==
    LongDescriptions \cup UNION {[1..k -> DescChars] : k \in 0..MaxDescLen}

\* MigrationManager.create_migration_name(description)
NameCall(description) ==
    /\ last' = [Call("create_migration_name") EXCEPT
                   !.description = description,
                   !.result = CreateMigrationName(description)]
    /\ UNCHANGED <<appliers, operations, store, ledger, schema, txDDL, strictColumns, durable, failed, napply, nsave>>

InitBare == Init /\ store = StoreEmpty /\ txDDL

\* create_migration_name called on the name an earlier call returned.
NameAgain ==
    /\ last.op = "create_migration_name"
    /\ last.name = <<>>
    /\ last' = [Call("create_migration_name") EXCEPT
                   !.name = last.result,
                   !.description = last.result,
                   !.result = CreateMigrationName(last.result)]
    /\ UNCHANGED <<appliers, operations, store, ledger, schema, txDDL, strictColumns, durable, failed, napply, nsave>>

NextName == (\E d \in Descriptions : NameCall(d)) \/ NameAgain

SpecName == InitBare /\ [][NextName]_vars

NameNumbers == {1, 2, 42, 999, 9999, 10000}

SaveDescriptions == LongDescriptions \cup UNION {[1..k -> {"A", "b", " "}] : k \in 0..3}

\* save_migration under a name create_migration_name returned.
NextSave ==
    \E n \in NameNumbers, d \in SaveDescriptions :
        SaveMigration(n, CreateMigrationName(d), SqlDropA)

SpecSave == InitBare /\ [][NextSave]_vars

(***************************************************************************)
(* Generation: one operation plan is turned into a script, the script is   *)
(* saved as the first migration and applied.                               *)
(***************************************************************************)
MaxOps == 3

OpCreateA ==
    DefinedOperation("CREATE_TABLE", "a", "",
        TableDef("a", <<ColumnDef("id", TypeInteger, FALSE, NoDefault, FALSE, TRUE, TRUE)>>))

\* A table with a column whose declared length int() does not read.
OpCreateBadType ==
    DefinedOperation("CREATE_TABLE", "a", "",
        TableDef("a", <<ColumnDef("id", TypeInteger, FALSE, NoDefault, FALSE, TRUE, TRUE),
                        ColumnDef("email", TypeVarcharMax, TRUE, NoDefault, FALSE, FALSE,
                                  FALSE)>>))

OpCreateUndefined == Operation("CREATE_TABLE", "b", "", FALSE)

OpDropA == Operation("DROP_TABLE", "a", "", TRUE)

OpAlterColumn == Operation("ALTER_COLUMN", "a", "x", TRUE)

OpAlterUndefined == Operation("ALTER_COLUMN", "a", "x", FALSE)

OpDropFkNamed == Operation("DROP_FOREIGN_KEY", "a", "fk", TRUE)

OpDropFkUnnamed == Operation("DROP_FOREIGN_KEY", "a", "", TRUE)

OpUnknown == Operation("RENAME_TABLE", "a", "", TRUE)

Operations ==
    {OpCreateA, OpCreateBadType, OpCreateUndefined, OpDropA, OpAlterColumn, OpAlterUndefined,
     OpDropFkNamed, OpDropFkUnnamed, OpUnknown}

OperationLists == UNION {[1..k -> Operations] : k \in 0..MaxOps}

GeneratedName == <<"g">>

InitGen ==
    /\ store = StoreEmpty
    /\ ledger = <<>>
    /\ schema = {}
    /\ txDDL = TRUE
    /\ durable = <<>>
    /\ failed = {}
    /\ last = NoCall
    /\ napply = 0
    /\ nsave = 0
    /\ operations \in OperationLists
    /\ appliers = NoAppliers
    /\ strictColumns = TRUE

\* MigrationManager.generate_sql(operations, metadata)
GenerateSqlCall ==
    /\ last.op = "none"
    /\ last' = [Call("generate_sql") EXCEPT
                   !.raised = GenerateSqlRaises(operations),
                   !.result = IF GenerateSqlRaises(operations) THEN <<>>
                              ELSE GenerateSql(operations)]
    /\ UNCHANGED <<appliers, operations, store, ledger, schema, txDDL, strictColumns, durable, failed, napply, nsave>>

\* The generated script is saved as migration 1.
SaveGenerated ==
    /\ last.op = "generate_sql"
    /\ ~last.raised
    /\ SaveMigration(1, GeneratedName, last.result)

NextGen ==
    \/ GenerateSqlCall
    \/ SaveGenerated
    \/ \E m \in Appliable : ApplyMigration(m)

SpecGen == InitGen /\ [][NextGen]_vars

(***************************************************************************)
(* The database manager with a database that may refuse: migrations are    *)
(* applied in any order between calls of the ledger-table check, the       *)
(* ledger query, the diagnostics and further constructions.                *)
(***************************************************************************)
CreateErrors == {NoError, "permission denied"}

ReadErrors == {NoError, "no such table"}

QueryErrors == {NoError, "connection lost"}

EnsureEntryPoints == {"ensure_migrations_table", "ensure_migration_table"}

Uri == <<"sqlite">>

ConstructorArgs ==
    {Plain(NoneValue), Plain(Str(<<>>)), Plain(Str(Uri)),
     ConfigObject(NoneValue), ConfigObject(Str(<<>>)), ConfigObject(Str(Uri))}

\* DatabaseManager.get_applied_migrations()
GetApplied(dbError) ==
    LET r == GetAppliedMigrationsRun(ledger, dbError)
    IN /\ last' = [Call("get_applied_migrations") EXCEPT
                      !.raised = r.raised, !.error = r.error, !.result = r.result,
                      !.scope = r.scope]
       /\ UNCHANGED <<appliers, operations, store, ledger, schema, txDDL, strictColumns, durable, failed, napply, nsave>>

\* DatabaseManager.test_connection()
TestConnection(dbError) ==
    LET r == DiagnosticRun("SELECT 1", dbError)
    IN /\ last' = [Call("test_connection") EXCEPT
                      !.raised = r.raised, !.connected = r.connected, !.log = r.log,
                      !.scope = r.scope]
       /\ UNCHANGED <<appliers, operations, store, ledger, schema, txDDL, strictColumns, durable, failed, napply, nsave>>

\* DatabaseManager.get_database_info()
GetDatabaseInfo(dbError) ==
    LET r == DiagnosticRun("SELECT version()", dbError)
    IN /\ last' = [Call("get_database_info") EXCEPT
                      !.raised = r.raised, !.connected = r.connected, !.error = r.error,
                      !.log = r.log, !.scope = r.scope]
       /\ UNCHANGED <<appliers, operations, store, ledger, schema, txDDL, strictColumns, durable, failed, napply, nsave>>

\* DatabaseManager(db_uri_or_config): another manager on the same database.
Construct(arg, createError, readError) ==
    LET r == ConstructorRun(arg, createError, readError)
    IN /\ last' = [Call("__init__") EXCEPT
                      !.raised = r.raised, !.error = r.error, !.log = r.log,
                      !.description = arg.value.text]
       /\ UNCHANGED <<appliers, operations, store, ledger, schema, txDDL, strictColumns, durable, failed, napply, nsave>>

InitDb == Init /\ store = StoreMain /\ txDDL

NextDb ==
    \/ \E m \in Appliable : ApplyMigration(m)
    \/ \E op \in EnsureEntryPoints, c \in CreateErrors, r \in ReadErrors :
          EnsureTableCall(op, c, r)
    \/ \E e \in QueryErrors : GetApplied(e)
    \/ \E e \in QueryErrors : TestConnection(e)
    \/ \E e \in QueryErrors : GetDatabaseInfo(e)
    \/ \E arg \in ConstructorArgs, c \in CreateErrors, r \in ReadErrors :
          Construct(arg, c, r)

SpecDb == InitDb /\ [][NextDb]_vars

(***************************************************************************)
(* Emission: one operation with its definition is translated on its own,   *)
(* and the table of a CREATE_TABLE is built.                               *)
(***************************************************************************)
MaxCols == 2

ColumnNames == {"id", "email"}

ColumnTypes == {TypeInteger, TypeVarchar100}

Defaults == {NoDefault, "0"}

\* The columns of ADD_COLUMN operations.
AddedColumns ==
    {ColumnDef("email", t, n, d, u, FALSE, FALSE) :
        t \in ColumnTypes, n \in BOOLEAN, d \in Defaults, u \in BOOLEAN}

\* The columns of the tables to create.
TableColumns ==
    {ColumnDef(name, TypeInteger, n, d, FALSE, p, p) :
        name \in ColumnNames, n \in BOOLEAN, d \in Defaults, p \in BOOLEAN}
    \cup {ColumnDef("email", t, TRUE, NoDefault, TRUE, FALSE, FALSE) :
             t \in {TypeFloat, TypeIntegerLower, TypeVarchar, TypeVarchar200Lower,
                    TypeVarcharMax, TypeText}}

TableDefs == {TableDef("a", cols) : cols \in UNION {[1..k -> TableColumns] : k \in 1..MaxCols}}

EmittedOperations ==
    Operations
    \cup {DefinedOperation("ADD_COLUMN", t, c.name, c) : t \in {"users", "a"}, c \in AddedColumns}
    \cup {DefinedOperation("CREATE_TABLE", d.name, "", d) : d \in TableDefs}

InitEmit ==
    /\ store = StoreEmpty
    /\ ledger = <<>>
    /\ schema = {}
    /\ txDDL = TRUE
    /\ durable = <<>>
    /\ failed = {}
    /\ last = NoCall
    /\ napply = 0
    /\ nsave = 0
    /\ operations \in {<<op>> : op \in EmittedOperations}
    /\ appliers = NoAppliers
    /\ strictColumns \in BOOLEAN

\* MigrationManager._operation_to_sql(operation, metadata, engine)
TranslateCall ==
    LET t == OperationToSql(operations[1])
    IN /\ last' = [Call("_operation_to_sql") EXCEPT
                      !.raised = t.exc # "none", !.result = t.sql]
       /\ UNCHANGED <<appliers, operations, store, ledger, schema, txDDL, strictColumns, durable, failed, napply, nsave>>

\* MigrationManager._build_sqlalchemy_table(table_def, metadata), as the
\* CREATE_TABLE branch calls it.
BuildTableCall ==
    /\ operations[1].operation_type = "CREATE_TABLE"
    /\ "new_definition" \in DOMAIN operations[1]
    /\ LET table == BuildSqlalchemyTable(operations[1].new_definition)
       IN last' = [Call("_build_sqlalchemy_table") EXCEPT
                      !.raised = table.exc # "none", !.result = table.columns]
    /\ UNCHANGED <<appliers, operations, store, ledger, schema, txDDL, strictColumns, durable, failed, napply, nsave>>

NextEmit == TranslateCall \/ BuildTableCall

SpecEmit == InitEmit /\ [][NextEmit]_vars

(***************************************************************************)
(* The schema differ.  A snapshot maps the names of its tables to their    *)
(* description: the ordered columns, the indexes and the foreign keys.  An  *)
(* absent snapshot has no table.                                           *)
(***************************************************************************)
TableSnapshot(name, columns, indexes, foreign_keys) ==
    [name |-> name, columns |-> columns, indexes |-> indexes, foreign_keys |-> foreign_keys]

Absent == <<>>

\* The order of names.
NameOrder == <<"a", "b", "c", "f", "g", "i", "x", "y">>

\* The names of a set, in order.
InOrder(names) ==
    LET Among(n) == n \in names
    IN SelectSeq(NameOrder, Among)

RECURSIVE Flatten(_)
Flatten(seqs) == IF seqs = <<>> THEN <<>> ELSE Head(seqs) \o Flatten(Tail(seqs))

\* The sequence of per(x), x in the given order, in one list.
ForEach(order, per(_)) == Flatten([i \in 1..Len(order) |-> per(order[i])])

ColumnNamesOf(table) == {table.columns[i].name : i \in 1..Len(table.columns)}

ColumnNamed(table, name) ==
    table.columns[CHOOSE i \in 1..Len(table.columns) : table.columns[i].name = name]

\* The objects of a set, each once, in one fixed order.
RECURSIVE Listed(_)
Listed(objects) ==
    IF objects = {} THEN <<>>
    ELSE LET o == CHOOSE x \in objects : TRUE
         IN <<o>> \o Listed(objects \ {o})

\* The objects of a set, each once, named in order; those without a name
\* come last.
ObjectsInOrder(objects) ==
    LET Named(n) == {o \in objects : o.name = n}
        rest == {o \in objects : o.name = ""}
    IN ForEach(InOrder({o.name : o \in objects} \ {""}), LAMBDA n : Listed(Named(n)))
       \o Listed(rest)

\* Mutant of Unmatched: every object counts as changed.
UnmatchedAlways(object, others) == TRUE

\* An object of the one side has no equal partner on the other: none of its
\* name, or one that differs.
Unmatched(object, others) == object \notin others

\* CreateTable of a table only the new snapshot has, then its indexes and its
\* foreign keys as operations of their own.
CreateOperations(table) == <<DefinedOperation("CREATE_TABLE", table.name, "", table)>>

CreatedObjects(table) ==
    ForEach(ObjectsInOrder(table.indexes),
            LAMBDA idx : <<DefinedOperation("CREATE_INDEX", table.name, idx.name, idx)>>)
    \o ForEach(ObjectsInOrder(table.foreign_keys),
               LAMBDA fk : <<DefinedOperation("ADD_FOREIGN_KEY", table.name, fk.name, fk)>>)

\* The operations of one kind on a table both snapshots have.
DropForeignKeys(old, new) ==
    ForEach(ObjectsInOrder({fk \in old.foreign_keys : Unmatched(fk, new.foreign_keys)}),
            LAMBDA fk : <<Operation("DROP_FOREIGN_KEY", old.name, fk.name, TRUE)>>)

DropIndexes(old, new) ==
    ForEach(ObjectsInOrder({idx \in old.indexes : Unmatched(idx, new.indexes)}),
            LAMBDA idx : <<Operation("DROP_INDEX", old.name, idx.name, TRUE)>>)

DropColumns(old, new) ==
    LET Gone(col) == col.name \notin ColumnNamesOf(new)
    IN ForEach(SelectSeq(old.columns, Gone),
               LAMBDA col : <<Operation("DROP_COLUMN", old.name, col.name, TRUE)>>)

AddColumns(old, new) ==
    LET Added(col) == col.name \notin ColumnNamesOf(old)
    IN ForEach(SelectSeq(new.columns, Added),
               LAMBDA col : <<DefinedOperation("ADD_COLUMN", new.name, col.name, col)>>)

AlterColumns(old, new) ==
    LET Altered(col) ==
            /\ col.name \in ColumnNamesOf(old)
            /\ ColumnNamed(old, col.name) # col
    IN ForEach(SelectSeq(new.columns, Altered),
               LAMBDA col : <<DefinedOperation("ALTER_COLUMN", new.name, col.name, col)>>)

CreateIndexes(old, new) ==
    ForEach(ObjectsInOrder({idx \in new.indexes : Unmatched(idx, old.indexes)}),
            LAMBDA idx : <<DefinedOperation("CREATE_INDEX", new.name, idx.name, idx)>>)

AddForeignKeys(old, new) ==
    ForEach(ObjectsInOrder({fk \in new.foreign_keys : Unmatched(fk, old.foreign_keys)}),
            LAMBDA fk : <<DefinedOperation("ADD_FOREIGN_KEY", new.name, fk.name, fk)>>)

\* Mutant of PlanOrder: the indexes and foreign keys stand before the tables.
PlanOrderObjectsFirst(drops, dropTables, creates, objects, changes) ==
    drops \o dropTables \o objects \o creates \o changes

\* The order of the plan: what is dropped from the kept tables, the dropped
\* tables, the created tables, the changes of columns, then the indexes and
\* the foreign keys.
PlanOrder(drops, dropTables, creates, objects, changes) ==
    drops \o dropTables \o creates \o changes \o objects

\* detect_changes(old_snapshot, new_snapshot) of the differ
DetectChanges(old, new) ==
    LET shared == InOrder(DOMAIN old \cap DOMAIN new)
        created == InOrder(DOMAIN new \ DOMAIN old)
        dropped == InOrder(DOMAIN old \ DOMAIN new)
    IN PlanOrder(
           ForEach(shared, LAMBDA t : DropForeignKeys(old[t], new[t]))
               \o ForEach(shared, LAMBDA t : DropIndexes(old[t], new[t]))
               \o ForEach(shared, LAMBDA t : DropColumns(old[t], new[t])),
           ForEach(dropped, LAMBDA t : <<Operation("DROP_TABLE", t, "", TRUE)>>),
           ForEach(created, LAMBDA t : CreateOperations(new[t])),
           ForEach(created, LAMBDA t : CreatedObjects(new[t]))
               \o ForEach(shared, LAMBDA t : CreateIndexes(old[t], new[t]))
               \o ForEach(shared, LAMBDA t : AddForeignKeys(old[t], new[t])),
           ForEach(shared, LAMBDA t : AddColumns(old[t], new[t]))
               \o ForEach(shared, LAMBDA t : AlterColumns(old[t], new[t])))

ColX == ColumnDef("x", TypeInteger, TRUE, NoDefault, FALSE, FALSE, FALSE)

ColXNotNull == ColumnDef("x", TypeInteger, FALSE, NoDefault, FALSE, FALSE, FALSE)

ColY == ColumnDef("y", TypeInteger, TRUE, NoDefault, FALSE, FALSE, FALSE)

ColumnLists == {<<ColX>>, <<ColXNotNull>>, <<ColX, ColY>>, <<ColY, ColX>>}

IndexSets == {{}, {IndexDef("i", <<"x">>, FALSE)}, {IndexDef("i", <<"x">>, TRUE)}}

ForeignKeySets ==
    {{}, {ForeignKeyDef("f", <<"x">>, "b", <<"x">>, "", "")},
     {ForeignKeyDef("f", <<"x">>, "b", <<"x">>, "CASCADE", "")},
     {ForeignKeyDef("", <<"x">>, "b", <<"x">>, "", "")},
     {ForeignKeyDef("", <<"x">>, "b", <<"x">>, "", ""),
      ForeignKeyDef("", <<"x">>, "b", <<"y">>, "", "")}}

TablesA ==
    {TableSnapshot("a", cols, idx, fks) :
        cols \in ColumnLists, idx \in IndexSets, fks \in ForeignKeySets}

TablesB ==
    {TableSnapshot("b", <<ColX>>, {}, {}),
     TableSnapshot("b", <<ColX>>, {IndexDef("g", <<"x">>, FALSE)}, {})}

Snapshots ==
    {Absent} \cup {("a" :> ta) : ta \in TablesA} \cup {("b" :> tb) : tb \in TablesB}
    \cup {("a" :> ta) @@ ("b" :> tb) : ta \in TablesA, tb \in TablesB}

InitDiff == Init /\ store = StoreEmpty /\ txDDL

\* MigrationManager.detect_changes(old_snapshot, new_snapshot)
DetectChangesCall ==
    /\ last.op = "none"
    /\ \E old \in Snapshots, new \in Snapshots :
          /\ operations' = DetectChanges(old, new)
          /\ last' = [Call("detect_changes") EXCEPT
                         !.old = old, !.new = new, !.result = DetectChanges(old, new)]
    /\ UNCHANGED <<appliers, store, ledger, schema, txDDL, strictColumns, durable, failed, napply, nsave>>

\* MigrationManager.generate_sql(operations, metadata) for the detected plan
GenerateDetected ==
    /\ last.op = "detect_changes"
    /\ last' = [Call("generate_sql") EXCEPT
                   !.old = last.old, !.new = last.new,
                   !.raised = GenerateSqlRaises(operations),
                   !.result = IF GenerateSqlRaises(operations) THEN <<>>
                              ELSE GenerateSql(operations)]
    /\ UNCHANGED <<appliers, operations, store, ledger, schema, txDDL, strictColumns, durable, failed, napply, nsave>>

NextDiff == DetectChangesCall \/ GenerateDetected

SpecDiff == InitDiff /\ [][NextDiff]_vars

(***************************************************************************)
(* Migration texts: one stored migration with any short text is applied.   *)
(***************************************************************************)
MaxTextLen == 4

TextTokens == {"--", ";", "\n", " ", "CREATE a", "note"}

MigrationTexts == UNION {[1..k -> TextTokens] : k \in 0..MaxTextLen}

InitText ==
    /\ store \in {(File0001a :> text) : text \in MigrationTexts}
    /\ ledger = <<>>
    /\ schema = {}
    /\ txDDL = TRUE
    /\ durable = <<>>
    /\ failed = {}
    /\ last = NoCall
    /\ napply = 0
    /\ nsave = 0
    /\ operations = <<>>
    /\ appliers = NoAppliers
    /\ strictColumns = TRUE

NextText == \E migration \in Appliable : ApplyMigration(migration)

SpecText == InitText /\ [][NextText]_vars

(***************************************************************************)
(* Round trip: a migration is saved, over an older file of its name or     *)
(* not, and the migrations are listed.                                     *)
(***************************************************************************)
SqlCrLf == <<"CREATE a", ";", "\r", "\n", "DROP a", ";">>

SqlCr == <<"CREATE a", ";", "\r">>

RoundTexts == {<<>>, SqlCreateA, SqlDropA, SqlTwo, SqlCrLf, SqlCr}

RoundNumbers == {1, 42, 10000}

RoundDescriptions == UNION {[1..k -> {"A", "b", " "}] : k \in 0..3}

InitRound == Init /\ store \in {StoreEmpty, (File0001a :> SqlCreateA)} /\ txDDL

\* get_all_migrations() called after the save
ListAfterSave ==
    /\ last.op = "save_migration"
    /\ last' = [Call("get_all_migrations") EXCEPT
                   !.filename = last.filename, !.number = last.number,
                   !.name = last.name, !.sql = last.sql,
                   !.raised = GetAllMigrationsRaises(store),
                   !.result = IF GetAllMigrationsRaises(store) THEN <<>>
                              ELSE GetAllMigrations(store)]
    /\ UNCHANGED <<appliers, operations, store, ledger, schema, txDDL, strictColumns, durable, failed, napply, nsave>>

NextRound ==
    \/ \E n \in RoundNumbers, d \in RoundDescriptions, sql \in RoundTexts :
          SaveMigration(n, CreateMigrationName(d), sql)
    \/ ListAfterSave

SpecRound == InitRound /\ [][NextRound]_vars

(***************************************************************************)
(* Racing appliers: two DatabaseManager instances apply the one stored     *)
(* migration, which both found pending, in steps that interleave.  On an   *)
(* engine with transactional DDL a table changed in an open transaction is *)
(* locked until the transaction ends and a rollback undoes the change; on  *)
(* the others every DDL statement is durable when it has run.  The row of  *)
(* a file name inserted in an open transaction holds back the insert of    *)
(* the same file name elsewhere until that transaction ends.  A session    *)
(* that is held back waits, or gives up with a database error.             *)
(***************************************************************************)
SqlCreateDrop == <<"CREATE a", ";", "\n", "DROP a", ";">>

SqlCommentOnly == <<"--", " ", "note", "\n">>

RaceTexts == {SqlCreateA, SqlDropA, SqlTwo, SqlBad, SqlCreateDrop, SqlCommentOnly}

InitRace ==
    /\ store \in {(File0001a :> text) : text \in RaceTexts}
    /\ ledger = <<>>
    /\ schema \in {{}, {"a"}}
    /\ txDDL \in BOOLEAN
    /\ durable = <<>>
    /\ failed = {}
    /\ last = NoCall
    /\ napply = 0
    /\ nsave = 0
    /\ operations = <<>>
    /\ appliers = NoAppliers
    /\ strictColumns = TRUE

\* The migration both managers found pending.
RaceMigration == PendingMigration(MigrationFile(store, File0001a))

RaceStatements == CleanStatements(RaceMigration.sql_content)

Other(p) == CHOOSE q \in Managers : q # p

\* The table a statement works on, "" for a statement that names none.
StatementTable(statement) ==
    LET words == DbWords(statement, FALSE)
    IN IF words # <<>> /\ words[1] \in CreateCommands \cup DropCommands \cup AlterCommands
       THEN TableOf(words[1])
       ELSE ""

\* What holds the next step of a manager back.  A statement: on an engine
\* with transactional DDL the lock of the other transaction on the
\* statement's table; on the others, where a DDL statement is durable when
\* it has run, the write lock of the transaction the other's ledger insert
\* has opened and not yet committed.  The insert: the other's uncommitted row
\* of the file name.
HeldBack(p) ==
    IF appliers[p].next <= Len(RaceStatements)
    THEN IF txDDL
         THEN StatementTable(RaceStatements[appliers[p].next]) \in appliers[Other(p)].locks
         ELSE appliers[Other(p)].pc = "inserted"
    ELSE appliers[Other(p)].pc = "inserted"

\* The tables after the rollback of a transaction.
RolledBack(tx, tables, applier) ==
    IF tx THEN (tables \ applier.locks) \cup applier.before ELSE tables

\* except SQLAlchemyError: the transaction is rolled back and RuntimeError raised.
Fails(p) ==
    /\ schema' = RolledBack(txDDL, schema, appliers[p])
    /\ appliers' = [appliers EXCEPT
                       ![p].pc = "failed", ![p].locks = {}, ![p].before = {},
                       ![p].effects = IF txDDL THEN 0 ELSE @]
    /\ UNCHANGED ledger

\* with self.SessionClass() as session: ... with session.begin():
BeginStep(p) ==
    /\ appliers[p].pc = "start"
    /\ appliers' = [appliers EXCEPT ![p].pc = "run"]
    /\ UNCHANGED <<operations, store, ledger, schema, txDDL, strictColumns, durable, failed, last, napply, nsave>>

\* session.execute(text(clean_statement)) of the next statement
ExecuteStep(p) ==
    /\ appliers[p].pc = "run"
    /\ appliers[p].next <= Len(RaceStatements)
    /\ ~HeldBack(p)
    /\ LET statement == RaceStatements[appliers[p].next]
           table == StatementTable(statement)
       IN IF DbAccepts(schema, statement)
          THEN /\ schema' = DbEffect(schema, statement)
               /\ appliers' = [appliers EXCEPT
                                  ![p].next = @ + 1,
                                  ![p].effects = @ + 1,
                                  ![p].locks = IF txDDL THEN @ \cup {table} ELSE @,
                                  ![p].before =
                                      IF txDDL /\ table \notin appliers[p].locks
                                      THEN @ \cup ({table} \cap schema) ELSE @]
               /\ UNCHANGED ledger
          ELSE Fails(p)
    /\ UNCHANGED <<operations, store, txDDL, strictColumns, durable, failed, last, napply, nsave>>

\* A statement or the insert that is held back gives up with a database error.
LockTimeout(p) ==
    /\ appliers[p].pc = "run"
    /\ HeldBack(p)
    /\ Fails(p)
    /\ UNCHANGED <<operations, store, txDDL, strictColumns, durable, failed, last, napply, nsave>>

\* session.execute(self.migrations_table.insert().values(filename=...))
InsertStep(p) ==
    /\ appliers[p].pc = "run"
    /\ appliers[p].next > Len(RaceStatements)
    /\ ~HeldBack(p)
    /\ IF LedgerInsertAccepted(ledger, RaceMigration.filename)
       THEN /\ appliers' = [appliers EXCEPT ![p].pc = "inserted"]
            /\ UNCHANGED <<ledger, schema>>
       ELSE Fails(p)
    /\ UNCHANGED <<operations, store, txDDL, strictColumns, durable, failed, last, napply, nsave>>

\* The end of `with session.begin()`: the commit.
CommitStep(p) ==
    /\ appliers[p].pc = "inserted"
    /\ ledger' = Append(ledger, RaceMigration.filename)
    /\ appliers' = [appliers EXCEPT ![p].pc = "committed", ![p].locks = {}, ![p].before = {}]
    /\ UNCHANGED <<operations, store, schema, txDDL, strictColumns, durable, failed, last, napply, nsave>>

NextRace ==
    \E p \in Managers :
        \/ BeginStep(p)
        \/ ExecuteStep(p)
        \/ LockTimeout(p)
        \/ InsertStep(p)
        \/ CommitStep(p)

SpecRace == InitRace /\ [][NextRace]_vars

(***************************************************************************)
(* Draining: one applier takes get_pending_migrations and applies the      *)
(* first entry, again and again, until the list is empty or a call raises. *)
(* It starts from a ledger that may hold rows already, of stored files or  *)
(* of a file that is no longer in the store.                               *)
(***************************************************************************)
File0008x == <<"0", "0", "0", "8", "_", "x", ".", "s", "q", "l">>

SqlShortA == <<"CREATE a", ";">>

SqlShortB == <<"CREATE b", ";">>

SqlShortBad == <<"BOGUS", ";">>

StoreOne == (File0001a :> SqlShortA) @@ (FileNotes :> SqlDropA)

StoreThree ==
    (File0001a :> SqlShortA) @@ (File0002b :> SqlDropA) @@ (File0003c :> SqlShortB)
        @@ (FileNotes :> SqlDropA) @@ (File0007d :> NoPermission)

StoreBad == (File9999a :> SqlShortA) @@ (File10000b :> SqlShortBad)

DrainStores == {StoreEmpty, StoreOne, StoreThree, StoreBad}

\* A ledger and the tables its migrations have left: 0001_a created a,
\* 0002_b dropped it, 0008_x created c.
DrainStarts ==
    {[ledger |-> <<>>, schema |-> {}],
     [ledger |-> <<File0001a>>, schema |-> {"a"}],
     [ledger |-> <<File0001a, File0002b>>, schema |-> {}],
     [ledger |-> <<File0008x>>, schema |-> {"c"}],
     [ledger |-> <<File0008x, File0001a>>, schema |-> {"a", "c"}]}

InitDrain ==
    /\ store \in DrainStores
    /\ \E start \in DrainStarts : ledger = start.ledger /\ schema = start.schema
    /\ txDDL \in BOOLEAN
    /\ durable = <<>>
    /\ failed = {}
    /\ last = NoCall
    /\ napply = 0
    /\ nsave = 0
    /\ operations = <<>>
    /\ appliers = NoAppliers
    /\ strictColumns = TRUE

\* The applier takes the list at the start and after every apply; it stops at
\* the first call that raises.
DrainFetch == failed = {} /\ last.op # "get_pending_migrations" /\ FetchPending

\* apply_migration of the first entry of the list get_pending_migrations
\* returned.
ApplyFetched ==
    /\ last.op = "get_pending_migrations"
    /\ ~last.raised
    /\ last.result # <<>>
    /\ ApplyMigration(last.result[1])

NextDrain == DrainFetch \/ ApplyFetched

SpecDrain == InitDrain /\ [][NextDrain]_vars

\* The applier has a next step: the list is to be taken, or its first entry
\* is to be applied.
CanStep ==
    \/ failed = {} /\ last.op # "get_pending_migrations"
    \/ /\ last.op = "get_pending_migrations"
       /\ ~last.raised
       /\ last.result # <<>>
       /\ napply < MaxApply

\* A step of the applier, by what it shows: one more apply is counted, or the
\* last call is another one.  In SpecDrain the steps that change the state
\* are the steps of NextDrain, each of them changes the last call, and one is
\* possible exactly where CanStep holds.
DrainTick ==
    /\ CanStep
    /\ \/ /\ napply' = napply + 1
          /\ UNCHANGED <<appliers, operations, store, ledger, schema, txDDL, strictColumns,
                         durable, failed, last, nsave>>
       \/ last'.op # last.op

\* The applier is one sequential loop: it goes on while it can.
SpecDrainFair == SpecDrain /\ WF_vars(DrainTick)

(***************************************************************************)
(* The claims.                                                             *)
(***************************************************************************)
IsApply == last.op = "apply_migration"

\* The events of one kind in the log of the last call, in order.
EventsOf(ev) ==
    LET Is(e) == e.ev = ev
    IN SelectSeq(last.log, Is)

\* The last apply_migration raised on a statement, before the ledger insert.
StatementFailed == IsApply /\ last.raised /\ EventsOf("insert") = <<>>

\* The last apply_migration raised on the ledger insert, after every
\* statement was accepted.
InsertFailed == IsApply /\ last.raised /\ EventsOf("insert") # <<>>

StateAsBefore == schema = last.preSchema /\ ledger = last.preLedger

\* C1: when a statement of the migration fails, at whatever position,
\* apply_migration raises and the database schema and the ledger are what they
\* were before the call.
C1_AtomicOnStatementFailure == StatementFailed => StateAsBefore

C3_RollbackOnInsertFailure == InsertFailed => StateAsBefore

\* C4: over any sequence of calls the statements of one file name become
\* durable at most once and the ledger holds at most one row for it.
C4_ExactlyOnce ==
    \A f \in Range(ledger) \cup Range(durable) :
        Count(durable, f) <= 1 /\ Count(ledger, f) <= 1

\* Position of the stored migration with that file name in get_all_migrations.
PositionIn(all, filename) == CHOOSE i \in 1..Len(all) : all[i].filename = filename

\* C5: get_pending_migrations returns exactly the stored migrations whose
\* file name is not among the applied ones, each once, in the order of
\* get_all_migrations, with the stored text; none of them is in the ledger.
C5_PendingSet ==
    last.op = "get_pending_migrations" =>
        LET r == last.result
            all == GetAllMigrations(store)
            applied == Range(GetAppliedMigrations(ledger))
            stored == {all[i].filename : i \in 1..Len(all)}
        IN /\ {r[i].filename : i \in 1..Len(r)} = stored \ applied
           /\ \A i, j \in 1..Len(r) : i # j => r[i].filename # r[j].filename
           /\ \A i, j \in 1..Len(r) :
                 i < j => PositionIn(all, r[i].filename) < PositionIn(all, r[j].filename)
           /\ \A i \in 1..Len(r) : r[i].sql_content = store[r[i].filename]
           /\ \A i \in 1..Len(r) : r[i].filename \notin Range(ledger)

\* Some stored migrations are applied, others are pending, and the pending
\* list was fetched.
C5_Witness ==
    /\ last.op = "get_pending_migrations"
    /\ ledger # <<>>
    /\ Len(last.result) >= 2
    /\ Len(last.result) < Len(GetAllMigrations(store))

\* C6: after apply_pending_migrations returns, every stored migration that
\* was not in the ledger has been executed and recorded.
C6_AppliesPending ==
    last.op = "apply_pending_migrations" =>
        LET all == GetAllMigrations(store)
        IN \A i \in 1..Len(all) :
              /\ all[i].filename \in Range(ledger)
              /\ all[i].filename \in Range(durable)

\* C7: apply_migration opens one transaction, executes the non-blank
\* statements in file order, each once and with nothing in between, inserts
\* the ledger row after the last statement and right before the commit, and
\* sends nothing that is not of this migration.
C7_StatementOrder ==
    IsApply =>
        LET log == last.log
            n == Len(log)
            statements == CleanStatements(last.sql)
            executes == EventsOf("execute")
        IN /\ n >= 2
           /\ log[1].ev = "begin"
           /\ Len(EventsOf("begin")) = 1
           /\ Len(EventsOf("commit")) + Len(EventsOf("rollback")) = 1
           /\ log[n].ev = (IF last.raised THEN "rollback" ELSE "commit")
           /\ Len(executes) <= Len(statements)
           /\ \A i \in 1..Len(executes) :
                 log[i + 1] = Event("execute", statements[i])
           /\ Len(EventsOf("insert")) <= 1
           /\ EventsOf("insert") # <<>> =>
                 /\ Len(executes) = Len(statements)
                 /\ log[n - 1] = Event("insert", last.filename)
           /\ ~last.raised => EventsOf("insert") # <<>>
           /\ (last.sql = SqlTwo /\ ~last.raised) =>
                 log = <<Event("begin", <<>>),
                         Event("execute", <<"CREATE b">>),
                         Event("execute", <<"CREATE a">>),
                         Event("insert", last.filename),
                         Event("commit", <<>>)>>

\* A migration of two statements, with blank and comment lines, was applied.
C7_Witness == IsApply /\ ~last.raised /\ last.sql = SqlTwo

\* C8: after a failed apply of a file that was pending, the file is still
\* pending; a later apply of it starts at its first statement and skips none;
\* when the database accepts every statement the effects and the ledger row
\* are committed.
C8_RetryAfterFailure ==
    /\ (IsApply /\ last.raised /\ last.filename \notin Range(last.preLedger)) =>
          \E i \in 1..Len(GetPendingMigrations(store, ledger)) :
              GetPendingMigrations(store, ledger)[i].filename = last.filename
    /\ (IsApply /\ last.retry) =>
          LET statements == CleanStatements(last.sql)
              executes == EventsOf("execute")
              run == RunStatements(statements, last.preSchema, 0)
          IN /\ Len(executes) = (IF run.error THEN run.done + 1 ELSE run.done)
             /\ \A i \in 1..Len(executes) : executes[i].arg = statements[i]
             /\ (~run.error /\ last.filename \notin Range(last.preLedger)) =>
                   /\ ~last.raised
                   /\ schema = run.tables
                   /\ ledger = Append(last.preLedger, last.filename)

\* A file whose apply had failed was applied again and committed, with an
\* effect on the schema.
C8_Witness ==
    /\ IsApply /\ last.retry /\ ~last.raised
    /\ schema # last.preSchema
    /\ last.filename \in Range(ledger)

\* C9: get_all_migrations returns the migrations in ascending order of their
\* migration number, whatever the digit widths of the prefixes.
C9_AscendingNumbers ==
    last.op = "get_all_migrations" =>
        \A i, j \in 1..Len(last.result) :
            i < j => last.result[i].number < last.result[j].number

\* C10: no two stored migrations share a number or a file name, and a newly
\* stored migration has the next number: greater than every stored one.
C10_StoreNumbering ==
    LET all == GetAllMigrations(store)
        before == GetAllMigrations(last.preStore)
    IN /\ \A i, j \in 1..Len(all) :
             i # j => all[i].number # all[j].number /\ all[i].filename # all[j].filename
       /\ (last.op \in {"save_migration", "create_migration"}
             /\ last.filename \notin DOMAIN last.preStore) =>
             /\ \A i \in 1..Len(before) : before[i].number < last.number
             /\ last.number = NextNumber(last.preStore)

\* ^\d{4}_[a-z0-9_]+\.sql$
MatchesArtifactPattern(filename) ==
    LET n == Len(filename)
    IN /\ n >= 4 + 1 + 1 + Len(SqlSuffix)
       /\ \A i \in 1..4 : IsDigit(filename[i])
       /\ filename[5] = "_"
       /\ \A i \in 6..(n - Len(SqlSuffix)) : IsSlugChar(filename[i])
       /\ SubSeq(filename, n - Len(SqlSuffix) + 1, n) = SqlSuffix

\* C11: for every number n >= 1 and every name create_migration_name returns,
\* the written file is named with exactly four digits, an underscore, the
\* name and .sql.
C11_ArtifactName ==
    (last.op = "save_migration" /\ last.number >= 1) =>
        /\ MatchesArtifactPattern(last.filename)
        /\ last.filename \in DOMAIN store

IsAlnum(c) == IsLower(c) \/ IsDigit(c)

\* A character of which lower() and the substitution leave a character of
\* [a-z0-9].
MapsToAlnum(c) == \E i \in 1..Len(LowerChar(c)) : IsAlnum(LowerChar(c)[i])

\* What holds of every name create_migration_name returns.
CleanName(name) ==
    /\ name # <<>>
    /\ \A i \in 1..Len(name) : IsSlugChar(name[i])
    /\ name[1] # "_" /\ name[Len(name)] # "_"
    /\ \A i \in 1..(Len(name) - 1) : ~(name[i] = "_" /\ name[i + 1] = "_")
    /\ Len(name) <= NameLimit

DescNoAlnum(description) == \A i \in 1..Len(description) : ~MapsToAlnum(description[i])

NameAddEmail ==
    <<"a", "d", "d", "_", "e", "m", "a", "i", "l", "_", "c", "o", "l", "u", "m", "n">>

\* C12 as stated: the name is clean, it is the placeholder exactly when no
\* character of the description maps into [a-z0-9], and "Add Email Column!!"
\* gives add_email_column.
C12_SlugAsStated ==
    last.op = "create_migration_name" =>
        /\ CleanName(last.result)
        /\ (last.result = PlaceholderName) <=> DescNoAlnum(last.description)
        /\ last.description = DescAddEmail => last.result = NameAddEmail

\* C12, amended: the name is clean; it is the placeholder whenever no
\* character of the description maps into [a-z0-9], and for a description
\* with such a character only when the letters and digits of the lower-cased
\* description spell the placeholder; "Add Email Column!!" gives
\* add_email_column.
C12_Slug ==
    last.op = "create_migration_name" =>
        /\ CleanName(last.result)
        /\ DescNoAlnum(last.description) => last.result = PlaceholderName
        /\ (last.result = PlaceholderName /\ ~DescNoAlnum(last.description)) =>
              SelectSeq(Lower(last.description), IsAlnum) = PlaceholderName
        /\ last.description = DescAddEmail => last.result = NameAddEmail

\* A description of the limit's length that lower() makes longer was named:
\* the name is cut at the limit.
C12_Witness ==
    /\ last.op = "create_migration_name"
    /\ last.description = DescDottedAtLimit
    /\ last.result = <<"i", "_">> \o Repeat("a", NameLimit - 2)

\* The stem parses as <number>_<name>: digits, at least one, up to an
\* underscore.
StemParses(stem) ==
    \E i \in 2..Len(stem) :
        /\ stem[i] = "_"
        /\ \A j \in 1..(i - 1) : IsDigit(stem[j])

Readable(content) == content \notin {NoPermission, BadEncoding}

\* C13: get_all_migrations returns normally whatever the store holds; it
\* returns, once each and with their content, exactly the *.sql files whose
\* stem parses as <number>_<name> and that can be read.
C13_MalformedSkipped ==
    last.op = "get_all_migrations" =>
        /\ ~last.raised
        /\ \A f \in DOMAIN store :
              (MatchesSqlGlob(f) /\ StemParses(Stem(f)) /\ Readable(store[f]))
                  <=> (\E i \in 1..Len(last.result) : last.result[i].filename = f)
        /\ \A i, j \in 1..Len(last.result) :
              /\ last.result[i].sql_content = store[last.result[i].filename]
              /\ last.result[i].filename = last.result[j].filename => i = j

\* A store with a file that has a non-integer prefix and one that does not
\* decode was listed, and a well-formed file came back.
C13_Witness ==
    /\ last.op = "get_all_migrations"
    /\ FileXPrefix \in DOMAIN store
    /\ \E f \in DOMAIN store : store[f] = BadEncoding
    /\ Len(last.result) > 0

IsGenerate == last.op = "generate_sql"

\* Comment lines and blank lines taken out of a list of lines.
CodeLines(lines) == SelectSeq(lines, KeepLine)

\* The operations whose translation raises: no definition to read, or a
\* table with a column whose type cannot be built.
TranslationRaises(operation) ==
    \/ operation.operation_type \in {"CREATE_TABLE", "ALTER_COLUMN"} /\ ~operation.defined
    \/ /\ operation.operation_type = "CREATE_TABLE"
       /\ operation.defined
       /\ BuildSqlalchemyTable(operation.new_definition).exc # "none"

\* The statement an operation stands for in the script, terminator
\* included; none for the kinds that are only described.
RECURSIVE ExecutableLines(_)
ExecutableLines(ops) ==
    IF ops = <<>> THEN <<>>
    ELSE LET o == Head(ops)
             line ==
                 IF TranslationRaises(o) THEN <<>>
                 ELSE IF o.operation_type = "CREATE_TABLE"
                      THEN <<<<CreateCommandOf(o.table_name), ";">>>>
                 ELSE IF o.operation_type = "DROP_TABLE"
                      THEN <<<<DropCommandOf(o.table_name), ";">>>>
                 ELSE IF o.operation_type = "DROP_FOREIGN_KEY" /\ o.object_name # ""
                      THEN <<<<AlterCommandOf(o.table_name), " ", DropConstraint, " ",
                               o.object_name, ";">>>>
                 ELSE <<>>
         IN line \o ExecutableLines(Tail(ops))

\* The lines of the script that name the operation in a warning.
IsWarningOf(line, operation) ==
    /\ IsCommentLine(line)
    /\ Len(line) > 4 + Len(OperationText(operation))
    /\ line[3] = "WARNING: Could not generate SQL for"
    /\ SubSeq(line, 5, 4 + Len(OperationText(operation))) = OperationText(operation)

\* C14: generate_sql never raises; an operation whose translation raises is
\* in the output as a warning of comment lines only, and the SQL of every
\* other operation is emitted, in the order of the list.
C14_FailSoft ==
    IsGenerate =>
        LET lines == Split(last.result, "\n")
        IN /\ ~last.raised
           /\ CodeLines(lines) = ExecutableLines(operations)
           /\ \A i \in 1..Len(operations) :
                 TranslationRaises(operations[i]) =>
                     \E k \in 1..Len(lines) : IsWarningOf(lines[k], operations[i])
           /\ \A k \in 1..Len(lines) :
                 (Len(lines[k]) >= 3 /\ lines[k][3] = "WARNING: Could not generate SQL for")
                     => IsCommentLine(lines[k])

\* A plan with a failing translation between two that succeed was generated.
C14_Witness ==
    /\ IsGenerate
    /\ \E i, j, k \in 1..Len(operations) :
          /\ i < j /\ j < k
          /\ TranslationRaises(operations[j])
          /\ ExecutableLines(<<operations[i]>>) # <<>>
          /\ ExecutableLines(<<operations[k]>>) # <<>>

\* The blocks of a script: its lines up to each blank line.
Blocks(text) == Split(Split(text, "\n"), <<>>)

\* C16: the script is one block per operation, in the order of the list,
\* each ended by a blank line; the block of a translated operation is a
\* comment line restating the operation and then the operation's SQL; the
\* empty list gives the empty script.
C16_ScriptStructure ==
    IsGenerate =>
        IF operations = <<>> THEN last.result = <<>>
        ELSE LET blocks == Blocks(last.result)
             IN /\ Len(blocks) = Len(operations) + 1
                /\ blocks[Len(blocks)] = <<>>
                /\ \A i \in 1..Len(operations) :
                      IF TranslationRaises(operations[i])
                      THEN /\ Len(blocks[i]) = 1
                           /\ IsWarningOf(blocks[i][1], operations[i])
                      ELSE /\ Len(blocks[i]) >= 2
                           /\ blocks[i][1] = <<"--", " ">> \o OperationText(operations[i])
                           /\ Tail(blocks[i])
                                 = Split(OperationToSql(operations[i]).sql, "\n")

\* A plan of several operations, one of them translated to more than one
\* line, was generated.
C16_Witness ==
    /\ IsGenerate
    /\ Len(operations) = MaxOps
    /\ \E i \in 1..Len(operations) : operations[i] = OpAlterColumn
    /\ \E i \in 1..Len(operations) : operations[i] = OpCreateA

\* The operations that are only described in the script.
CommentOnly(operation) ==
    \/ operation.operation_type = "ALTER_COLUMN" /\ operation.defined
    \/ operation.operation_type = "DROP_FOREIGN_KEY" /\ operation.object_name = ""

\* The statements of the script as the session gets them: without the
\* terminator.
ExecutableStatements(ops) ==
    LET lines == ExecutableLines(ops)
    IN [i \in 1..Len(lines) |-> SubSeq(lines[i], 1, Len(lines[i]) - 1)]

IsApplyGenerated == IsApply /\ last.sql = GenerateSql(operations)

\* C15: applying a generated script sends the statements of the executable
\* operations in script order and nothing for the operations that are only
\* described; when the database accepts them all and the file has no ledger
\* row yet, the call returns and the ledger row is recorded.
C15_DiagnosticsDoNotBlock ==
    IsApplyGenerated =>
        LET expected == ExecutableStatements(operations)
            executes == EventsOf("execute")
            executed == [i \in 1..Len(executes) |-> executes[i].arg]
        IN /\ Len(executed) <= Len(expected)
           /\ executed = SubSeq(expected, 1, Len(executed))
           /\ (/\ ~RunStatements(expected, last.preSchema, 0).error
               /\ last.filename \notin Range(last.preLedger))
                 => /\ ~last.raised
                    /\ executed = expected
                    /\ ledger = Append(last.preLedger, last.filename)

\* A script with a described operation between two executable ones was
\* applied and recorded.
C15_Witness ==
    /\ IsApplyGenerated
    /\ ~last.raised
    /\ last.filename \in Range(ledger)
    /\ Len(EventsOf("execute")) = 2
    /\ \E i, j, k \in 1..Len(operations) :
          /\ i < j /\ j < k
          /\ CommentOnly(operations[j])
          /\ ExecutableLines(<<operations[i]>>) # <<>>
          /\ ExecutableLines(<<operations[k]>>) # <<>>

\* The calls that run _ensure_migrations_table to its end.
IsEnsure ==
    \/ last.op \in EnsureEntryPoints
    \/ last.op = "__init__" /\ EventsOf("create_all") # <<>>

CreateFailed == \E i \in 1..Len(last.log) :
                    last.log[i].ev = "create_all" /\ last.log[i].arg # NoError

ReadFailed == \E i \in 1..Len(last.log) :
                  last.log[i].ev = "select_limit_1" /\ last.log[i].arg # NoError

\* C17: when the creation of the ledger table fails and the bounded read
\* succeeds the call returns; when the read fails too it raises an error
\* that names the creation failure; the ledger rows are what they were, at
\* every call and through every entry point.
C17_EnsureTable ==
    IsEnsure =>
        /\ last.raised <=> (CreateFailed /\ ReadFailed)
        /\ (CreateFailed /\ ~ReadFailed) => EventsOf("select_limit_1") # <<>>
        /\ last.raised =>
              /\ last.error[1] = "RuntimeError"
              /\ last.error[3] = EventsOf("create_all")[1].arg
        /\ ledger = last.preLedger
        /\ schema = last.preSchema

\* With rows in the ledger, the creation failed and the read failed too.
C17_Witness ==
    /\ IsEnsure
    /\ Len(ledger) >= 2
    /\ CreateFailed /\ ReadFailed
    /\ last.raised

\* C18: get_applied_migrations returns the file name of every ledger row,
\* each once, in ascending order, whatever the order of application, and
\* leaves the ledger alone.
C18_AppliedSorted ==
    (last.op = "get_applied_migrations" /\ ~last.raised) =>
        /\ Range(last.result) = Range(ledger)
        /\ Len(last.result) = Len(ledger)
        /\ \A i, j \in 1..Len(last.result) :
              i < j => StrLess(last.result[i], last.result[j])
        /\ ledger = last.preLedger

\* The ledger was read after two migrations were applied in descending
\* order of their names.
C18_Witness ==
    /\ last.op = "get_applied_migrations"
    /\ ~last.raised
    /\ Len(ledger) >= 2
    /\ StrLess(ledger[2], ledger[1])

IsDiagnostic == last.op \in {"test_connection", "get_database_info"}

\* C19: test_connection and get_database_info change neither the ledger nor
\* the schema and never raise; on a database error they return False and
\* connected = False.
C19_DiagnosticsSideEffectFree ==
    IsDiagnostic =>
        /\ ledger = last.preLedger
        /\ schema = last.preSchema
        /\ ~last.raised
        /\ last.connected <=> (\A i \in 1..Len(last.log) : last.log[i].arg = NoError)

\* The database answered a diagnostic with an error, with rows in the ledger.
C19_Witness ==
    /\ last.op = "get_database_info"
    /\ \E i \in 1..Len(last.log) : last.log[i].arg # NoError
    /\ ~last.connected
    /\ ledger # <<>>

\* C20: a constructor given no URI or an empty one raises before the engine
\* is created and before the ledger table is created or read.
C20_FailFast ==
    (last.op = "__init__" /\ last.description = <<>>) =>
        /\ last.raised
        /\ last.error[1] = "ValueError"
        /\ last.log = <<>>

\* A constructor was given a config object without a URI.
C20_Witness ==
    /\ last.op = "__init__"
    /\ last.description = <<>>
    /\ last.raised

IsScoped ==
    last.op \in {"apply_migration", "get_applied_migrations", "test_connection",
                 "get_database_info"}

Acquires == {"Session()", "engine.connect()"}

Releases == {"session.close()", "conn.close()"}

\* What is still held after the events of a call: sessions or connections,
\* and transactions.  A close ends the transaction that is open on it.
RECURSIVE HeldAfter(_, _)
HeldAfter(scope, held) ==
    IF scope = <<>> THEN held
    ELSE LET ev == Head(scope)
             next ==
                 IF ev \in Acquires THEN [held EXCEPT !.holders = @ + 1]
                 ELSE IF ev \in {"session.begin()", "autobegin"}
                      THEN [held EXCEPT !.transactions = @ + 1]
                 ELSE IF ev \in {"commit", "rollback"}
                      THEN [held EXCEPT !.transactions = @ - 1]
                 ELSE [holders |-> held.holders - 1, transactions |-> 0]
         IN HeldAfter(Tail(scope), next)

NothingHeld == [holders |-> 0, transactions |-> 0]

\* C21: whichever way apply_migration, get_applied_migrations,
\* test_connection and get_database_info are left, the session or connection
\* of the call is released and no transaction is open; apply_migration ends
\* its transaction by commit when it returns and by rollback when it raises.
C21_ScopedAcquisition ==
    IsScoped =>
        /\ last.scope # <<>>
        /\ Head(last.scope) \in Acquires
        /\ last.scope[Len(last.scope)] \in Releases
        /\ HeldAfter(last.scope, NothingHeld) = NothingHeld
        /\ IsApply =>
              last.scope[Len(last.scope) - 1] = (IF last.raised THEN "rollback" ELSE "commit")

\* A migration failed after its first statement was accepted.
C21_Witness ==
    /\ IsApply
    /\ last.raised
    /\ Len(EventsOf("execute")) >= 2
    /\ EventsOf("insert") = <<>>

IsBuildTable == last.op = "_build_sqlalchemy_table"

\* C22: the table built for CREATE TABLE from columns of distinct names,
\* when the build does not raise, lists the snapshot's columns in the
\* snapshot's order, each with its nullability, default expression,
\* uniqueness, primary-key and autoincrement flags.
C22_CreateTableColumns ==
    (/\ IsBuildTable
     /\ ~last.raised
     /\ ~HasDuplicateNames(operations[1].new_definition.columns)) =>
        LET given == operations[1].new_definition.columns
            built == last.result
        IN /\ Len(built) = Len(given)
           /\ \A i \in 1..Len(given) :
                 /\ built[i].name = given[i].name
                 /\ built[i].nullable = given[i].nullable
                 /\ built[i].default = given[i].default
                 /\ built[i].unique = given[i].unique
                 /\ built[i].primary_key = given[i].primary_key
                 /\ built[i].autoincrement = given[i].autoincrement

IsTranslate == last.op = "_operation_to_sql"

\* The tokens of a text that are not blanks.
Words(text) ==
    LET IsWord(t) == t \notin Whitespace
    IN SelectSeq(text, IsWord)

\* C23: the SQL of an AddColumn is ALTER TABLE <table> ADD COLUMN <name>
\* <type>, then NOT NULL exactly for a column that is not nullable, DEFAULT
\* <expr> exactly for one with a default expression and UNIQUE exactly for a
\* unique one, in this order, and a ';'; the nullable column email
\* VARCHAR(100) without default on users gives
\* ALTER TABLE users ADD COLUMN email VARCHAR(100);
C23_AddColumn ==
    (IsTranslate /\ operations[1].operation_type = "ADD_COLUMN") =>
        LET op == operations[1]
            col == op.new_definition
        IN /\ ~last.raised
           /\ Words(last.result) =
                 <<"ALTER TABLE", op.table_name, "ADD COLUMN", col.name>> \o col.type
                     \o (IF col.nullable THEN <<>> ELSE <<"NOT NULL">>)
                     \o (IF col.default = NoDefault THEN <<>> ELSE <<"DEFAULT", col.default>>)
                     \o (IF col.unique THEN <<"UNIQUE">> ELSE <<>>)
                     \o <<";">>
           /\ (op = DefinedOperation("ADD_COLUMN", "users", "email",
                       ColumnDef("email", TypeVarchar100, TRUE, NoDefault, FALSE, FALSE, FALSE)))
                 => last.result = <<"ALTER TABLE", " ", "users", " ", "ADD COLUMN", " ",
                                    "email", " ", "V", "A", "R", "C", "H", "A", "R", "(",
                                    "1", "0", "0", ")", ";">>

\* A unique column with a default that is not nullable was added.
C23_Witness ==
    /\ IsTranslate
    /\ operations[1].operation_type = "ADD_COLUMN"
    /\ ~operations[1].new_definition.nullable
    /\ operations[1].new_definition.default # NoDefault
    /\ operations[1].new_definition.unique

KnownKinds ==
    {"CREATE_TABLE", "DROP_TABLE", "ADD_COLUMN", "DROP_COLUMN", "ALTER_COLUMN",
     "CREATE_INDEX", "DROP_INDEX", "ADD_FOREIGN_KEY", "DROP_FOREIGN_KEY"}

\* C24: a DropForeignKey with a constraint name gives the statement
\* ALTER TABLE <table> DROP CONSTRAINT <name>; one without a name gives a
\* comment and no statement; an operation of no known kind gives a comment
\* too and no exception.
C24_DropForeignKey ==
    IsTranslate =>
        LET op == operations[1]
            lines == Split(last.result, "\n")
        IN /\ (op.operation_type = "DROP_FOREIGN_KEY" /\ op.object_name # "") =>
                 /\ ~last.raised
                 /\ last.result = <<AlterCommandOf(op.table_name), " ", DropConstraint, " ",
                                    op.object_name, ";">>
                 /\ CleanStatements(last.result)
                       = <<<<AlterCommandOf(op.table_name), " ", DropConstraint, " ",
                             op.object_name>>>>
           /\ (\/ op.operation_type = "DROP_FOREIGN_KEY" /\ op.object_name = ""
               \/ op.operation_type \notin KnownKinds) =>
                 /\ ~last.raised
                 /\ last.result # <<>>
                 /\ \A i \in 1..Len(lines) : IsCommentLine(lines[i])
                 /\ CleanStatements(last.result) = <<>>

\* An operation of no known kind was translated.
C24_Witness ==
    /\ IsTranslate
    /\ operations[1].operation_type \notin KnownKinds
    /\ last.result # <<>>

IsDetect == last.op = "detect_changes"

\* C25: in the plan detect_changes returns, no AddForeignKey or CreateIndex
\* on a table the same plan creates stands before that table's CreateTable,
\* and no DropTable stands before a DropForeignKey, DropIndex or DropColumn
\* on the same table.
C25_DependencyOrdering ==
    IsDetect =>
        \A i, j \in 1..Len(last.result) :
            (i < j /\ last.result[i].table_name = last.result[j].table_name) =>
                /\ ~(/\ last.result[i].operation_type \in {"ADD_FOREIGN_KEY", "CREATE_INDEX"}
                     /\ last.result[j].operation_type = "CREATE_TABLE")
                /\ ~(/\ last.result[i].operation_type = "DROP_TABLE"
                     /\ last.result[j].operation_type
                           \in {"DROP_FOREIGN_KEY", "DROP_INDEX", "DROP_COLUMN"})

\* A plan creates a table with an index and a foreign key.
C25_Witness ==
    /\ IsDetect
    /\ \E i, j, k \in 1..Len(last.result) :
          /\ last.result[i].operation_type = "CREATE_TABLE"
          /\ last.result[j].operation_type = "CREATE_INDEX"
          /\ last.result[k].operation_type = "ADD_FOREIGN_KEY"
          /\ last.result[i].table_name = last.result[j].table_name
          /\ last.result[i].table_name = last.result[k].table_name

\* C26: detect_changes(S, S) returns the empty sequence for every snapshot
\* S, and generate_sql gives the empty script for it.
C26_NoOpConvergence ==
    /\ (IsDetect /\ last.old = last.new) => last.result = <<>>
    /\ (last.op = "generate_sql" /\ last.old = last.new) =>
          (~last.raised /\ last.result = <<>> /\ operations = <<>>)

\* The script of a snapshot with tables, indexes and foreign keys compared
\* with itself was generated.
C26_Witness ==
    /\ last.op = "generate_sql"
    /\ last.old = last.new
    /\ DOMAIN last.new = {"a", "b"}
    /\ last.new["a"].indexes # {}
    /\ last.new["a"].foreign_keys # {}

\* The lines of a text, stripped.
LinesOf(text) ==
    LET lines == Split(text, "\n")
    IN [i \in 1..Len(lines) |-> Strip(lines[i])]

\* The words on the lines of a text that are, or are not, comment lines.
WordsOnLines(text, comment) ==
    LET lines == LinesOf(text)
    IN UNION {Range(lines[i]) \ (Whitespace \cup {";", CommentMark}) :
                 i \in {k \in 1..Len(lines) : IsCommentLine(lines[k]) = comment}}

\* The words of a text that stand on its comment lines only.
CommentOnlyWords(text) == WordsOnLines(text, TRUE) \ WordsOnLines(text, FALSE)

\* C28: apply_migration sends the database no text that stands only on
\* comment lines of the migration, also when a comment line holds a ';';
\* every statement it sends is non-empty and has no comment line.
C28_CommentsNotExecuted ==
    IsApply =>
        \A i \in 1..Len(EventsOf("execute")) :
            LET statement == EventsOf("execute")[i].arg
            IN /\ statement # <<>>
               /\ \A k \in 1..Len(LinesOf(statement)) : ~IsCommentLine(LinesOf(statement)[k])
               /\ Range(statement) \cap CommentOnlyWords(last.sql) = {}

\* C30: after save_migration(n, name, sql), n >= 1 and name made by
\* create_migration_name, get_all_migrations holds exactly one MigrationFile
\* of the written file, with the number n, the name, the file's name and the
\* text sql, also when the save replaced an older file of that name.
C30_SaveListRoundTrip ==
    (last.op = "get_all_migrations" /\ last.filename # <<>>) =>
        LET entries == {i \in 1..Len(last.result) : last.result[i].filename = last.filename}
        IN /\ ~last.raised
           /\ Cardinality(entries) = 1
           /\ \A i \in entries :
                 /\ last.result[i].number = last.number
                 /\ last.result[i].name = last.name
                 /\ last.result[i].sql_content = last.sql

\* Both managers have left apply_migration.
RaceOver == \A p \in Managers : appliers[p].pc \in {"committed", "failed"}

\* C27: when two managers apply the same pending file concurrently, the
\* ledger ends with at most one row of the file, the statements of at most
\* one of them are in effect, and the other's transaction has failed and
\* left nothing behind.
C27_RacingAppliers ==
    RaceOver =>
        /\ Count(ledger, RaceMigration.filename) <= 1
        /\ Cardinality({p \in Managers : appliers[p].effects > 0}) <= 1
        /\ \E p \in Managers : appliers[p].pc = "failed"
        /\ \A p \in Managers : appliers[p].pc = "failed" => appliers[p].effects = 0

\* The file names of the stored migrations.
StoredNames ==
    LET all == GetAllMigrations(store)
    IN {all[i].filename : i \in 1..Len(all)}

\* get_pending_migrations returned the empty list.
Drained == last.op = "get_pending_migrations" /\ ~last.raised /\ last.result = <<>>

\* The applier stopped at a call that raised.
DrainStopped == failed # {} \/ (last.op = "get_pending_migrations" /\ last.raised)

\* An apply that succeeded took the first entry off the pending list and
\* left the others as they were.
AppliedShrinks ==
    (IsApply /\ ~last.raised) =>
        LET before == GetPendingMigrations(store, last.preLedger)
        IN /\ before # <<>>
           /\ before[1].filename = last.filename
           /\ GetPendingMigrations(store, ledger) = Tail(before)

\* The rows the ledger held when the applier started.
RowsAtStart == SubSeq(ledger, 1, Len(ledger) - Len(durable))

\* C29 as claimed: while every apply succeeds, each apply shrinks the pending
\* list by exactly the applied file, the list is empty in the end, and then
\* the ledger holds exactly the file names of the stored migrations.
C29_Drain ==
    /\ [](AppliedShrinks /\ (Drained => Range(ledger) = StoredNames))
    /\ <>(Drained \/ DrainStopped)

\* C29, amended: while every apply succeeds, each apply shrinks the pending
\* list by exactly the applied file, the list is empty in the end, and then
\* the ledger holds the file name of every stored migration and, besides
\* them, only rows it held at the start.
C29_DrainAmended ==
    /\ [](/\ AppliedShrinks
          /\ Drained => /\ StoredNames \subseteq Range(ledger)
                        /\ Range(ledger) \subseteq StoredNames \cup Range(RowsAtStart))
    /\ <>(Drained \/ DrainStopped)

\* The pending list was drained by three applies over a ledger that held a
\* row of a file the store does not have.
C29_Witness ==
    /\ Drained
    /\ Len(durable) = 3
    /\ File0008x \in Range(ledger)

\* create_migration_name was called on a name it had returned.
IsNameAgain == last.op = "create_migration_name" /\ last.name # <<>>

\* A name of [a-z0-9_] only, without a leading, trailing or doubled
\* underscore, of at most 50 characters.
AlreadyClean(name) ==
    /\ \A i \in 1..Len(name) : IsSlugChar(name[i])
    /\ name # <<>> => (name[1] # "_" /\ name[Len(name)] # "_")
    /\ \A i \in 1..(Len(name) - 1) : ~(name[i] = "_" /\ name[i + 1] = "_")
    /\ Len(name) <= NameLimit

\* C31 as stated: create_migration_name of a name it returned is that name,
\* and every name that is already clean is returned unchanged.
C31_SlugIdempotenceAsStated ==
    /\ IsNameAgain => last.result = last.name
    /\ (last.op = "create_migration_name" /\ AlreadyClean(last.description)) =>
          last.result = last.description

\* C31, amended: create_migration_name of a name it returned is that name,
\* and every name that is already clean and not empty is returned unchanged.
C31_SlugIdempotence ==
    /\ IsNameAgain => last.result = last.name
    /\ (/\ last.op = "create_migration_name"
        /\ AlreadyClean(last.description)
        /\ last.description # <<>>) =>
          last.result = last.description

\* A name with an underscore was handed back to create_migration_name.
C31_Witness ==
    /\ IsNameAgain
    /\ "_" \in Range(last.name)
    /\ AlreadyClean(last.description)

====
